---------------------------- MODULE Spec2Model ----------------------------
(***************************************************************************)
(* VulnContext backend: the context-aware risk engine, the validated       *)
(* weight configuration with whole-dataset rescoring, and the manual       *)
(* disposition state machine with its audit log.                           *)
(*                                                                         *)
(* Numbers.  Python floats are modelled as exact fixed-point numbers:      *)
(*   cvss_score            tenths            (9.5   -> 95)                 *)
(*   epss_score, weights   thousandths       (0.25  -> 250)                *)
(*   normalised factors    1/NormOne         (1.0   -> 146000)             *)
(*   base_score, risk_raw  1/RawOne          (1.0   -> 146000000)          *)
(*   risk_raw * 100.0      1/PointOne        (1.0   -> 1460000)            *)
(*   risk_score            tenths of a point (40.0  -> 400)                *)
(* NormOne is a common multiple of 100 (cvss), 1000 (epss), 365 (age) and  *)
(* 4 (criticality), so every product and sum below is exact.               *)
(*                                                                         *)
(* Text.  A Python str that the code trims, re-cases or rewrites is a      *)
(* sequence of one-character strings; other strings are TLA+ strings.      *)
(* Python None is None (for TLA+ strings), NoneInt (for numbers) and       *)
(* NoneStr (for character sequences).                                      *)
(***************************************************************************)
EXTENDS Integers, Sequences, FiniteSets, TLC

VARIABLES
    call,       \* scoring harness: the arguments of one compute_risk_assessment call
    ret,        \* scoring harness: the RiskAssessment it returned (NoRet before)
    configs,    \* table risk_scoring_config (committed rows, by ascending id)
    findings,   \* table scored_findings (committed rows, index = id)
    events,     \* table finding_events (committed rows, by ascending id)
    pc,         \* per request worker: where its handler stands
    req,        \* per request worker: the request it is serving
    sess,       \* per request worker: its SQLAlchemy session (objects in memory)
    resp,       \* per request worker: the last response it sent
    budget      \* requests the two-worker environment may still send

vars == <<call, ret, configs, findings, events, pc, req, sess, resp, budget>>

None == "None"

NoneInt == -1000000

NoneStr == <<"<None>">>

\* an absent RiskWeights argument (weights=None)
NoWeights == [absent |-> TRUE]

\* the harness before compute_risk_assessment has returned
NoRet == [absent |-> TRUE]

-----------------------------------------------------------------------------
(* Units *)

NormOne == 146000

RawOne == 146000000

PointOne == 1460000

Min(x, y) == IF y < x THEN y ELSE x

Max(x, y) == IF y > x THEN y ELSE x

\* a clamp that keeps the upper bound only
Clamp_upper_only(lo, hi, x) == Min(hi, x)

\* max(lo, min(hi, x)), as the code writes its clamps
Clamp(lo, hi, x) == Max(lo, Min(hi, x))

\* Python round(x, 1) of x = n/d points, in tenths: nearest, ties to even
RoundTenths(n, d) ==
    LET q == (10 * n) \div d
        r == (10 * n) % d
    IN  IF 2 * r < d THEN q
        ELSE IF 2 * r > d THEN q + 1
        ELSE IF q % 2 = 0 THEN q ELSE q + 1

-----------------------------------------------------------------------------
(* app/core/risk_weights.py *)

WeightFields ==
    {"cvss_weight", "epss_weight", "internet_exposed_weight",
     "asset_criticality_weight", "vuln_age_weight", "auth_required_weight"}

DEFAULT_RISK_WEIGHTS ==
    [cvss_weight |-> 300, epss_weight |-> 250, internet_exposed_weight |-> 200,
     asset_criticality_weight |-> 150, vuln_age_weight |-> 100,
     auth_required_weight |-> -100]

-----------------------------------------------------------------------------
(* app/scoring.py *)

BandOrder == [Low |-> 1, Medium |-> 2, High |-> 3, Critical |-> 4]

Bands == {"Low", "Medium", "High", "Critical"}

\* the classification with the three comparisons written >
_band_from_score_100_exclusive(risk_score) ==
    IF risk_score > 80 * PointOne THEN "Critical"
    ELSE IF risk_score > 60 * PointOne THEN "High"
    ELSE IF risk_score > 40 * PointOne THEN "Medium"
    ELSE "Low"

\* the argument is risk_raw * 100.0, in 1/PointOne
_band_from_score_100(risk_score) ==
    IF risk_score >= 80 * PointOne THEN "Critical"
    ELSE IF risk_score >= 60 * PointOne THEN "High"
    ELSE IF risk_score >= 40 * PointOne THEN "Medium"
    ELSE "Low"

\* a floor that returns the minimum band whatever the current band is
_max_band_minimum(current, minimum) == minimum

_max_band(current, minimum) ==
    LET ord(b) == IF b \in Bands THEN BandOrder[b] ELSE 1
    IN  IF ord(current) >= ord(minimum) THEN current ELSE minimum

_asset_crit_norm_from_label(label) ==
    CASE label = "Low" -> 36500
      [] label = "Medium" -> 73000
      [] label = "High" -> 109500
      [] label = "Critical" -> 146000
      [] OTHER -> 73000

_asset_crit_norm_from_numeric(value) == Clamp(0, NormOne, value * (NormOne \div 4))

\* base_score = max(0.0, min(1.0, base_score)) with the bound left out
base_score_unclamped(weighted) == weighted

\* base_score = max(0.0, min(1.0, base_score))
base_score_clamped(weighted) == Clamp(0, RawOne, weighted)

\* the KEV deadline with the comparison written > 4
kev_sla_hours_strict(asset_criticality) ==
    LET asset_crit_value == IF asset_criticality = NoneInt THEN 0 ELSE asset_criticality
    IN  IF asset_crit_value > 4 THEN 24 ELSE 72

\* asset_crit_value = int(asset_criticality or 0); 24 if asset_crit_value >= 4 else 72
kev_sla_hours(asset_criticality) ==
    LET asset_crit_value == IF asset_criticality = NoneInt THEN 0 ELSE asset_criticality
    IN  IF asset_crit_value >= 4 THEN 24 ELSE 72

\* a: the keyword arguments; weights: a RiskWeights record or NoWeights
compute_risk_assessment(a, weights) ==
    LET cvss_norm == Clamp(0, NormOne, a.cvss_score * (NormOne \div 100))
        epss_norm == Clamp(0, NormOne, a.epss_score * (NormOne \div 1000))
        age_clamped == Clamp(0, 365, a.vuln_age_days)
        age_norm == age_clamped * (NormOne \div 365)
        internet_exposed_norm == IF a.internet_exposed THEN NormOne ELSE 0
        auth_norm == IF a.auth_required THEN NormOne ELSE 0
        crit_norm ==
            IF a.asset_criticality # NoneInt
            THEN _asset_crit_norm_from_numeric(a.asset_criticality)
            ELSE _asset_crit_norm_from_label(
                     IF a.asset_criticality_label \in {None, ""} THEN "Medium"
                     ELSE a.asset_criticality_label)
        applied_weights == IF weights = NoWeights THEN DEFAULT_RISK_WEIGHTS ELSE weights
        weighted ==
              applied_weights.cvss_weight * cvss_norm
            + applied_weights.epss_weight * epss_norm
            + applied_weights.internet_exposed_weight * internet_exposed_norm
            + applied_weights.asset_criticality_weight * crit_norm
            + applied_weights.vuln_age_weight * age_norm
            + applied_weights.auth_required_weight * auth_norm
        base_score == base_score_clamped(weighted)
        risk_raw ==
            IF a.is_kev THEN Min(RawOne, base_score + RawOne \div 4)
            ELSE base_score
        floor_band ==
            IF epss_norm * 100 >= 95 * NormOne
            THEN _max_band(_band_from_score_100(risk_raw), "High")
            ELSE IF epss_norm * 100 >= 80 * NormOne
            THEN _max_band(_band_from_score_100(risk_raw), "Medium")
            ELSE _band_from_score_100(risk_raw)
    IN  [risk_score |-> RoundTenths(risk_raw, PointOne),
         risk_band |-> IF a.is_kev THEN "Critical" ELSE floor_band,
         sla_hours |-> IF a.is_kev THEN kev_sla_hours(a.asset_criticality)
                       ELSE NoneInt,
         risk_raw |-> risk_raw]

-----------------------------------------------------------------------------
(* app/api/scores.py: _validate_risk_weights *)

\* a validator that checks the sum of the positive weights and nothing else
_validate_risk_weights_sum_only(payload) ==
    LET non_negative_sum ==
              payload.cvss_weight + payload.epss_weight
            + payload.internet_exposed_weight + payload.asset_criticality_weight
            + payload.vuln_age_weight
    IN  IF non_negative_sum - 1000 > 1 \/ 1000 - non_negative_sum > 1
        THEN <<"Positive weights", "must sum to 1.0.">>
        ELSE <<>>

\* <<>> when the payload passes, else the detail of the HTTP 400 it raises
_validate_risk_weights(payload) ==
    LET non_negative_fields ==
            <<"cvss_weight", "epss_weight", "internet_exposed_weight",
              "asset_criticality_weight", "vuln_age_weight">>
        bad == {i \in 1..5 : payload[non_negative_fields[i]] < 0
                             \/ payload[non_negative_fields[i]] > 1000}
        first == CHOOSE i \in bad : \A j \in bad : i <= j
        non_negative_sum ==
              payload.cvss_weight + payload.epss_weight
            + payload.internet_exposed_weight + payload.asset_criticality_weight
            + payload.vuln_age_weight
        abs(x) == IF x < 0 THEN -x ELSE x
    IN  IF bad # {}
        THEN (IF payload[non_negative_fields[first]] < 0
              THEN <<non_negative_fields[first], "must be >= 0.">>
              ELSE <<non_negative_fields[first], "must be <= 1.">>)
        ELSE IF payload.auth_required_weight > 0
        THEN <<"auth_required_weight", "must be <= 0.">>
        ELSE IF payload.auth_required_weight < -1000
        THEN <<"auth_required_weight", "must be >= -1.">>
        ELSE IF abs(non_negative_sum - 1000) > 1
        THEN <<"Positive weights", "must sum to 1.0.">>
        ELSE <<>>

W(c, e, x, k, a, u) ==
    [cvss_weight |-> c, epss_weight |-> e, internet_exposed_weight |-> x,
     asset_criticality_weight |-> k, vuln_age_weight |-> a,
     auth_required_weight |-> u]

\* request bodies of PUT /scores/weights that pass validation
ValidPayloads ==
    {DEFAULT_RISK_WEIGHTS,
     W(0, 0, 0, 0, 1000, 0),
     W(0, 0, 0, 0, 1000, -1000),
     W(299, 250, 200, 150, 100, -100),
     W(301, 250, 200, 150, 100, 0)}

\* request bodies one step outside each constraint
InvalidPayloads ==
    {W(300, 250, 200, 150, 200, -100),
     W(300, 250, 200, 150, 100, 50),
     W(300, 250, 200, 150, 100, -1001),
     W(-1, 301, 250, 250, 200, -100),
     W(1001, 0, 0, 0, 0, 0),
     W(0, 0, 0, 1001, 0, -100),
     W(298, 250, 200, 150, 100, -100),
     W(302, 250, 200, 150, 100, -100)}

-----------------------------------------------------------------------------
(* The scoring harness: one call of compute_risk_assessment per behaviour *)

CvssValues == {-10, 0, 35, 50, 95, 100}

\* thousandths; 799, 800, 949 and 950 sit on the two floor thresholds
EpssValues == {-500, 0, 200, 250, 799, 800, 949, 950, 960, 2500}

AgeValues == {-10, 0, 15, 364, 365, 9999}

\* <<asset_criticality, asset_criticality_label>>
CritArgs ==
    ({-1, 0, 1, 2, 3, 4, 5} \X {None})
    \cup ({NoneInt} \X {None, "Low", "Medium", "High", "Critical", "UnknownLabel"})

ScoringArgs ==
    {[cvss_score |-> c, epss_score |-> e, internet_exposed |-> x,
      asset_criticality |-> k[1], asset_criticality_label |-> k[2],
      vuln_age_days |-> g, auth_required |-> u, is_kev |-> v] :
        c \in CvssValues, e \in EpssValues, x \in BOOLEAN, k \in CritArgs,
        g \in AgeValues, u \in BOOLEAN, v \in BOOLEAN}

ScoringWeights ==
    {NoWeights} \cup {w \in ValidPayloads \cup InvalidPayloads :
                         _validate_risk_weights(w) = <<>>}

-----------------------------------------------------------------------------
(* Python str methods on text held as a sequence of characters *)

Whitespace == {" ", "\t", "\n"}

UpperLetters ==
    <<"A", "B", "C", "D", "E", "F", "G", "H", "I", "J", "K", "L", "M",
      "N", "O", "P", "Q", "R", "S", "T", "U", "V", "W", "X", "Y", "Z">>

LowerLetters ==
    <<"a", "b", "c", "d", "e", "f", "g", "h", "i", "j", "k", "l", "m",
      "n", "o", "p", "q", "r", "s", "t", "u", "v", "w", "x", "y", "z">>

\* str.strip(): without the leading and the trailing whitespace
strip(s) ==
    LET kept == {i \in 1..Len(s) : s[i] \notin Whitespace}
        first == CHOOSE i \in kept : \A j \in kept : i <= j
        last == CHOOSE i \in kept : \A j \in kept : j <= i
    IN  IF kept = {} THEN <<>> ELSE SubSeq(s, first, last)

\* str.lower()
lower(s) ==
    [i \in 1..Len(s) |->
        IF \E n \in 1..26 : UpperLetters[n] = s[i]
        THEN LowerLetters[CHOOSE n \in 1..26 : UpperLetters[n] = s[i]]
        ELSE s[i]]

\* str.upper()
upper(s) ==
    [i \in 1..Len(s) |->
        IF \E n \in 1..26 : LowerLetters[n] = s[i]
        THEN UpperLetters[CHOOSE n \in 1..26 : LowerLetters[n] = s[i]]
        ELSE s[i]]

\* str.replace(old, new) for one-character old and new
replace(s, old, new) == [i \in 1..Len(s) |-> IF s[i] = old THEN new ELSE s[i]]

\* the str a sequence of characters spells (columns that are only compared
\* and copied hold a str)
RECURSIVE text(_)
text(s) == IF s = <<>> THEN "" ELSE s[1] \o text(Tail(s))

\* `value or ""` for a str | None
or_empty(value) == IF value = NoneStr THEN <<>> ELSE value

\* `(value or "").strip() or None`
stripped_or_none(value) ==
    IF strip(or_empty(value)) = <<>> THEN NoneStr ELSE strip(or_empty(value))

\* `(value or default).strip() or default`
stripped_or(value, default) ==
    LET given == IF value \in {NoneStr, <<>>} THEN default ELSE value
    IN  IF strip(given) = <<>> THEN default ELSE strip(given)

-----------------------------------------------------------------------------
(* app/models.py: the rows *)

\* characters of a Python str, one per element
s_none == <<"n", "o", "n", "e">>

s_manual == <<"m", "a", "n", "u", "a", "l">>

s_system == <<"s", "y", "s", "t", "e", "m">>

s_active == <<"a", "c", "t", "i", "v", "e">>

s_ignored == <<"i", "g", "n", "o", "r", "e", "d">>

s_risk_accepted ==
    <<"r", "i", "s", "k", "_", "a", "c", "c", "e", "p", "t", "e", "d">>

s_false_positive ==
    <<"f", "a", "l", "s", "e", "_", "p", "o", "s", "i", "t", "i", "v", "e">>

s_not_applicable ==
    <<"n", "o", "t", "_", "a", "p", "p", "l", "i", "c", "a", "b", "l", "e">>

\* a new ScoredFinding row: the column defaults of the model class
ScoredFindingDefaults ==
    [id |-> 0, source |-> "unknown", finding_id |-> None, asset_id |-> None,
     asset_criticality |-> NoneInt, cve_id |-> NoneStr, is_kev |-> FALSE,
     sla_hours |-> NoneInt, cvss_score |-> NoneInt, epss_score |-> NoneInt,
     vuln_age_days |-> NoneInt, internet_exposed |-> FALSE,
     auth_required |-> FALSE, risk_score |-> NoneInt, risk_band |-> None,
     finding_key |-> None, disposition |-> s_none, disposition_state |-> NoneStr,
     disposition_reason |-> NoneStr, disposition_comment |-> NoneStr,
     disposition_created_at |-> NoneInt, disposition_expires_at |-> NoneInt,
     disposition_created_by |-> NoneStr,
     kev_date_added |-> NoneInt, kev_due_date |-> NoneInt,
     kev_vendor_project |-> NoneStr, kev_product |-> NoneStr,
     kev_vulnerability_name |-> NoneStr, kev_short_description |-> NoneStr,
     kev_required_action |-> NoneStr, kev_ransomware_use |-> NoneStr]

Columns == DOMAIN ScoredFindingDefaults

\* models.ScoredFinding(**kwargs): the given columns, defaults for the rest
ScoredFinding(kwargs) ==
    [k \in Columns |-> IF k \in DOMAIN kwargs THEN kwargs[k]
                       ELSE ScoredFindingDefaults[k]]

\* dict.get(key, default)
Get(d, key, default) == IF key \in DOMAIN d THEN d[key] ELSE default

-----------------------------------------------------------------------------
(* app/scoring.py: the adapters *)

NumericLabel(v) ==
    CASE v = 1 -> "Low" [] v = 2 -> "Medium" [] v = 3 -> "High"
      [] v = 4 -> "Critical" [] OTHER -> "Medium"

\* the dict `finding` with risk_score, risk_band and sla_hours attached
_compute_risk_for_row(finding, weights) ==
    LET asset_crit_label ==
            IF "asset_criticality_label" \in DOMAIN finding
            THEN finding.asset_criticality_label
            ELSE IF "asset_criticality" \in DOMAIN finding
            THEN NumericLabel(finding.asset_criticality)
            ELSE "Medium"
        numeric == Get(finding, "asset_criticality", 2)
        assessment ==
            compute_risk_assessment(
                [cvss_score |-> Get(finding, "cvss_score", 0),
                 epss_score |-> Get(finding, "epss_score", 0),
                 internet_exposed |-> Get(finding, "internet_exposed", FALSE),
                 asset_criticality_label |-> asset_crit_label,
                 asset_criticality |-> IF numeric \in {0, NoneInt} THEN 2 ELSE numeric,
                 vuln_age_days |-> Get(finding, "vuln_age_days", 0),
                 auth_required |-> Get(finding, "auth_required", FALSE),
                 is_kev |-> Get(finding, "is_kev", FALSE)],
                weights)
    IN  [k \in DOMAIN finding \cup {"risk_score", "risk_band", "sla_hours"} |->
            CASE k = "risk_score" -> assessment.risk_score
              [] k = "risk_band" -> assessment.risk_band
              [] k = "sla_hours" -> assessment.sla_hours
              [] OTHER -> finding[k]]

score_finding_dict(finding, weights) == _compute_risk_for_row(finding, weights)

-----------------------------------------------------------------------------
(* app/api/scores.py: rescoring a stored row *)

_asset_criticality_label_from_numeric(asset_criticality) ==
    NumericLabel(asset_criticality)

\* a rescoring that averages the new score into the stored one
_rescore_finding_smoothing(finding, weights) ==
    LET assessment ==
            compute_risk_assessment(
                [cvss_score |-> finding.cvss_score,
                 epss_score |-> finding.epss_score,
                 internet_exposed |-> finding.internet_exposed,
                 asset_criticality_label |-> None,
                 asset_criticality |->
                     IF finding.asset_criticality \in {0, NoneInt} THEN 2
                     ELSE finding.asset_criticality,
                 vuln_age_days |->
                     IF finding.vuln_age_days = NoneInt THEN 0
                     ELSE finding.vuln_age_days,
                 auth_required |-> finding.auth_required,
                 is_kev |-> finding.is_kev],
                weights)
    IN  [finding EXCEPT !.risk_score = (@ + assessment.risk_score) \div 2,
                        !.risk_band = assessment.risk_band,
                        !.sla_hours = assessment.sla_hours]

\* a rescoring that assigns risk_score and risk_band and leaves sla_hours
_rescore_finding_score_only(finding, weights) ==
    LET assessment ==
            compute_risk_assessment(
                [cvss_score |-> finding.cvss_score,
                 epss_score |-> finding.epss_score,
                 internet_exposed |-> finding.internet_exposed,
                 asset_criticality_label |-> None,
                 asset_criticality |->
                     IF finding.asset_criticality \in {0, NoneInt} THEN 2
                     ELSE finding.asset_criticality,
                 vuln_age_days |->
                     IF finding.vuln_age_days = NoneInt THEN 0
                     ELSE finding.vuln_age_days,
                 auth_required |-> finding.auth_required,
                 is_kev |-> finding.is_kev],
                weights)
    IN  [finding EXCEPT !.risk_score = assessment.risk_score,
                        !.risk_band = assessment.risk_band]

\* a rescoring that also lets a disposition with a stored expiry lapse
_rescore_finding_expiring(finding, weights) ==
    LET assessment ==
            compute_risk_assessment(
                [cvss_score |-> finding.cvss_score,
                 epss_score |-> finding.epss_score,
                 internet_exposed |-> finding.internet_exposed,
                 asset_criticality_label |->
                     _asset_criticality_label_from_numeric(finding.asset_criticality),
                 asset_criticality |->
                     IF finding.asset_criticality \in {0, NoneInt} THEN 2
                     ELSE finding.asset_criticality,
                 vuln_age_days |->
                     IF finding.vuln_age_days = NoneInt THEN 0
                     ELSE finding.vuln_age_days,
                 auth_required |-> finding.auth_required,
                 is_kev |-> finding.is_kev],
                weights)
        expired == finding.disposition_expires_at # NoneInt
    IN  [finding EXCEPT !.risk_score = assessment.risk_score,
                        !.risk_band = assessment.risk_band,
                        !.sla_hours = assessment.sla_hours,
                        !.disposition = IF expired THEN s_none ELSE @,
                        !.disposition_state = IF expired THEN NoneStr ELSE @]

\* the row `finding` after the three assignments
_rescore_finding_in_place(finding, weights) ==
    LET assessment ==
            compute_risk_assessment(
                [cvss_score |-> finding.cvss_score,
                 epss_score |-> finding.epss_score,
                 internet_exposed |-> finding.internet_exposed,
                 asset_criticality_label |->
                     _asset_criticality_label_from_numeric(finding.asset_criticality),
                 asset_criticality |->
                     IF finding.asset_criticality \in {0, NoneInt} THEN 2
                     ELSE finding.asset_criticality,
                 vuln_age_days |->
                     IF finding.vuln_age_days = NoneInt THEN 0
                     ELSE finding.vuln_age_days,
                 auth_required |-> finding.auth_required,
                 is_kev |-> finding.is_kev],
                weights)
    IN  [finding EXCEPT !.risk_score = assessment.risk_score,
                        !.risk_band = assessment.risk_band,
                        !.sla_hours = assessment.sla_hours]

-----------------------------------------------------------------------------
(* Request workers, their SQLAlchemy sessions and the committed tables *)

MaxFindings == 2

MaxRequests == 4

MaxEvents == 2

\* the largest id the table scored_findings hands out
MaxId == 3

Workers == {1, 2}

NoReq == [op |-> "none"]

NoResp == [op |-> "none", status |-> 0]

\* a session holds the objects it loaded (as loaded, and as they are now in
\* memory) and the objects it added; nothing reaches the tables before commit
EmptySession ==
    [config_id |-> 0, config_loaded |-> NoWeights, config |-> NoWeights,
     rows |-> <<>>, i |-> 0, new_rows |-> <<>>, new_events |-> <<>>,
     kev_catalog |-> <<>>, updated_rows |-> 0, marked |-> 0, cleared |-> 0]

\* weights_from_config: the six weight columns of a config row
weights_from_config(config) == [k \in WeightFields |-> config[k]]

\* the UPDATE a flush emits for one loaded object: only the columns whose
\* value in memory differs from the value loaded
FlushedRow(committed, loaded, cur) ==
    [k \in DOMAIN committed |-> IF cur[k] # loaded[k] THEN cur[k] ELSE committed[k]]

Index(id) == CHOOSE n \in 1..Len(findings) : findings[n].id = id

Exists(id) == \E n \in 1..Len(findings) : findings[n].id = id

\* SQLite INTEGER PRIMARY KEY: one more than the largest id in the table
NextId(table) ==
    IF table = <<>> THEN 1
    ELSE 1 + (CHOOSE m \in {table[n].id : n \in 1..Len(table)} :
                 \A n \in 1..Len(table) : table[n].id <= m)

Dirty(r) == r.cur # r.loaded

\* a dirty object whose row is gone: the flush raises StaleDataError
Stale(s) == \E n \in 1..Len(s.rows) : Dirty(s.rows[n]) /\ ~Exists(s.rows[n].loaded.id)

FlushedConfigs(s) ==
    IF s.config_id = 0 THEN configs
    ELSE [configs EXCEPT ![s.config_id] = FlushedRow(@, s.config_loaded, s.config)]

FlushedFindings(s) ==
    LET updated ==
            [n \in 1..Len(findings) |->
                IF \E m \in 1..Len(s.rows) : s.rows[m].loaded.id = findings[n].id
                THEN LET r == s.rows[CHOOSE m \in 1..Len(s.rows) :
                                        s.rows[m].loaded.id = findings[n].id]
                     IN  FlushedRow(findings[n], r.loaded, r.cur)
                ELSE findings[n]]
        base == NextId(findings)
    IN  updated \o [n \in 1..Len(s.new_rows) |->
                       [s.new_rows[n] EXCEPT !.id = base + n - 1]]

InFlight(op) == Cardinality({p \in Workers : pc[p] # "idle" /\ req[p].op = op})

Respond(p, status, body) ==
    /\ pc' = [pc EXCEPT ![p] = "idle"]
    /\ req' = [req EXCEPT ![p] = NoReq]
    /\ sess' = [sess EXCEPT ![p] = EmptySession]
    /\ resp' = [resp EXCEPT ![p] = [op |-> req[p].op, status |-> status, body |-> body]]

\* the request reaches its handler with a fresh session (get_db)
Receive(p, r, counted) ==
    /\ pc[p] = "idle"
    /\ counted => budget > 0
    /\ budget' = IF counted THEN budget - 1 ELSE budget
    /\ r.op = "create_scored_finding"
          => Len(findings) + InFlight("create_scored_finding") < MaxFindings
    /\ r.op = "create_scored_finding" => NextId(findings) <= MaxId
    /\ r.op = "seed_qualys_csv"
          => /\ Len(findings) + InFlight("create_scored_finding")
                    + Len(r.file.csv.rows) <= MaxFindings
             /\ NextId(findings) + Len(r.file.csv.rows) - 1 <= MaxId
    /\ r.op \in {"set_finding_disposition", "clear_finding_disposition"}
          => Len(events) + InFlight("set_finding_disposition")
                 + InFlight("clear_finding_disposition") < MaxEvents
    /\ pc' = [pc EXCEPT ![p] = "start"]
    /\ req' = [req EXCEPT ![p] = r]
    /\ sess' = [sess EXCEPT ![p] = EmptySession]
    /\ UNCHANGED <<call, ret, configs, findings, events, resp>>

-----------------------------------------------------------------------------
(* app/core/risk_weights.py: get_or_create_scoring_config, by database step *)

\* the handler goes on with the config row it holds
ConfigLoaded(p, id) ==
    LET s == [sess[p] EXCEPT !.config_id = id, !.config_loaded = configs[id],
                             !.config = configs[id]]
    IN  CASE req[p].op = "update_risk_weights" ->
                /\ pc' = [pc EXCEPT ![p] = "upd_query"]
                /\ sess' = [sess EXCEPT ![p] = [s EXCEPT !.config = req[p].payload]]
                /\ UNCHANGED <<req, resp>>
          [] req[p].op = "create_scored_finding" ->
                /\ pc' = [pc EXCEPT ![p] = "crt_commit"]
                /\ sess' = [sess EXCEPT ![p] = s]
                /\ UNCHANGED <<req, resp>>
          [] req[p].op = "re_enrich_findings_with_kev" ->
                /\ pc' = [pc EXCEPT ![p] = "kev_query"]
                /\ sess' = [sess EXCEPT ![p] = s]
                /\ UNCHANGED <<req, resp>>
          [] req[p].op = "seed_qualys_csv" ->
                /\ pc' = [pc EXCEPT ![p] = "seed_commit"]
                /\ sess' = [sess EXCEPT ![p] = s]
                /\ UNCHANGED <<req, resp>>
          [] req[p].op = "get_risk_weights" ->
                Respond(p, 200, weights_from_config(configs[id]))

\* SELECT ... ORDER BY id ASC LIMIT 1
get_or_create_select(p) ==
    IF configs # <<>>
    THEN ConfigLoaded(p, 1)
    ELSE /\ pc' = [pc EXCEPT ![p] = "config_insert"]
         /\ UNCHANGED <<req, sess, resp>>

\* db.add(config); db.commit()
get_or_create_insert(p) ==
    /\ pc[p] = "config_insert"
    /\ configs' = Append(configs, DEFAULT_RISK_WEIGHTS)
    /\ sess' = [sess EXCEPT ![p].config_id = Len(configs) + 1]
    /\ pc' = [pc EXCEPT ![p] = "config_refresh"]
    /\ UNCHANGED <<call, ret, findings, events, req, resp, budget>>

\* db.refresh(config)
get_or_create_refresh(p) ==
    /\ pc[p] = "config_refresh"
    /\ ConfigLoaded(p, sess[p].config_id)
    /\ UNCHANGED <<call, ret, configs, findings, events, budget>>

-----------------------------------------------------------------------------
(* app/api/scores.py: GET /weights, POST /, PUT /weights *)

get_risk_weights(p) ==
    /\ pc[p] = "start"
    /\ req[p].op = "get_risk_weights"
    /\ get_or_create_select(p)
    /\ UNCHANGED <<call, ret, configs, findings, events, budget>>

create_scored_finding(p) ==
    /\ pc[p] = "start"
    /\ req[p].op = "create_scored_finding"
    /\ get_or_create_select(p)
    /\ UNCHANGED <<call, ret, configs, findings, events, budget>>

\* score_finding_dict, db.add, db.commit, db.refresh
create_scored_finding_commit(p) ==
    /\ pc[p] = "crt_commit"
    /\ LET scored_dict == score_finding_dict(req[p].finding_in,
                                             weights_from_config(sess[p].config))
           s == [sess[p] EXCEPT !.new_rows = <<ScoredFinding(scored_dict)>>]
       IN  /\ findings' = FlushedFindings(s)
           /\ Respond(p, 200, findings'[Len(findings')])
    /\ UNCHANGED <<call, ret, configs, events, budget>>

\* a handler that fetches (and so creates) the config before it validates
update_risk_weights_config_first(p) ==
    /\ pc[p] = "start"
    /\ req[p].op = "update_risk_weights"
    /\ IF _validate_risk_weights(req[p].payload) # <<>>
       THEN /\ configs' = IF configs = <<>> THEN <<DEFAULT_RISK_WEIGHTS>> ELSE configs
            /\ Respond(p, 400, [detail |-> _validate_risk_weights(req[p].payload)])
       ELSE /\ get_or_create_select(p)
            /\ UNCHANGED configs
    /\ UNCHANGED <<call, ret, findings, events, budget>>

\* _validate_risk_weights, then get_or_create_scoring_config
update_risk_weights(p) ==
    /\ pc[p] = "start"
    /\ req[p].op = "update_risk_weights"
    /\ IF _validate_risk_weights(req[p].payload) # <<>>
       THEN Respond(p, 400, [detail |-> _validate_risk_weights(req[p].payload)])
       ELSE get_or_create_select(p)
    /\ UNCHANGED <<call, ret, configs, findings, events, budget>>

\* findings = db.query(models.ScoredFinding).all()
update_risk_weights_query(p) ==
    /\ pc[p] = "upd_query"
    /\ sess' = [sess EXCEPT ![p].rows =
                    [n \in 1..Len(findings) |->
                        [loaded |-> findings[n], cur |-> findings[n]]],
                            ![p].i = 1]
    /\ pc' = [pc EXCEPT ![p] = IF findings = <<>> THEN "upd_commit" ELSE "upd_loop"]
    /\ UNCHANGED <<call, ret, configs, findings, events, req, resp, budget>>

\* one turn of the loop over findings
update_risk_weights_rescore(p) ==
    /\ pc[p] = "upd_loop"
    /\ LET i == sess[p].i
           weights == weights_from_config(sess[p].config)
       IN  /\ sess' = [sess EXCEPT
                          ![p].rows[i].cur = _rescore_finding_in_place(@, weights),
                          ![p].i = i + 1]
           /\ pc' = [pc EXCEPT ![p] = IF i = Len(sess[p].rows) THEN "upd_commit"
                                      ELSE "upd_loop"]
    /\ UNCHANGED <<call, ret, configs, findings, events, req, resp, budget>>

\* db.commit(): the flush writes the config and the findings in one transaction
update_risk_weights_commit(p) ==
    /\ pc[p] = "upd_commit"
    /\ IF Stale(sess[p])
       THEN /\ Respond(p, 500, [detail |-> <<"Internal Server Error">>])
            /\ UNCHANGED <<configs, findings>>
       ELSE /\ configs' = FlushedConfigs(sess[p])
            /\ findings' = FlushedFindings(sess[p])
            /\ Respond(p, 200, [updated_rows |-> Len(sess[p].rows),
                                weights |-> weights_from_config(sess[p].config)])
    /\ UNCHANGED <<call, ret, events, budget>>

-----------------------------------------------------------------------------
(* app/api/scores.py: dispositions and the audit log *)

\* the values datetime.utcnow() returns
Times == {1, 2}

\* the clock does not run backwards: utcnow() returns no time before `since`
\* or before the time of an event already in the log
utcnow(since) ==
    {t \in Times : /\ t >= since
                   /\ \A n \in 1..Len(events) : events[n].event_at <= t}

Digits == <<"0", "1", "2", "3", "4", "5", "6", "7", "8", "9">>

NoDict == [absent |-> TRUE]

ALLOWED_DISPOSITIONS ==
    {s_none, s_ignored, s_risk_accepted, s_false_positive, s_not_applicable}

\* a normaliser that lets every candidate through
_normalize_disposition_unchecked(raw_disposition) ==
    [ok |-> TRUE,
     candidate |-> replace(lower(strip(or_empty(raw_disposition))), " ", "_")]

\* ok is FALSE where the code raises HTTP 400
_normalize_disposition(raw_disposition) ==
    LET candidate == replace(lower(strip(or_empty(raw_disposition))), " ", "_")
    IN  [ok |-> candidate \in ALLOWED_DISPOSITIONS, candidate |-> candidate]

\* str(datetime), the `default` of json.dumps
str_datetime(t) == <<"d", "a", "y", Digits[t + 1]>>

\* one JSON value: null, or a string (a datetime becomes the string of it)
json_value(key, v) ==
    IF key = "disposition_expires_at"
    THEN (IF v = NoneInt THEN [type |-> "null", text |-> <<>>]
          ELSE [type |-> "string", text |-> str_datetime(v)])
    ELSE (IF v = NoneStr THEN [type |-> "null", text |-> <<>>]
          ELSE [type |-> "string", text |-> v])

\* json.dumps(value, sort_keys=True, default=str): the object, key by key
_serialize_json(value) ==
    IF value = NoDict THEN NoDict
    ELSE [key \in DOMAIN value |-> json_value(key, value[key])]

\* a snapshot that always reports the disposition "none"
old_value_at_none(finding) ==
    [disposition |-> s_none,
     disposition_state |-> finding.disposition_state,
     disposition_reason |-> finding.disposition_reason,
     disposition_comment |-> finding.disposition_comment,
     disposition_expires_at |-> finding.disposition_expires_at,
     disposition_created_by |-> finding.disposition_created_by]

\* the dict old_value that set and clear build before they assign
old_value(finding) ==
    [disposition |-> IF finding.disposition = <<>> THEN s_none
                     ELSE finding.disposition,
     disposition_state |-> finding.disposition_state,
     disposition_reason |-> finding.disposition_reason,
     disposition_comment |-> finding.disposition_comment,
     disposition_expires_at |-> finding.disposition_expires_at,
     disposition_created_by |-> finding.disposition_created_by]

\* the FindingEvent that _record_finding_event adds to the session
_record_finding_event(finding, event_type, actor, old, new, event_at) ==
    [id |-> 0,
     finding_key |-> IF finding.finding_key # None THEN <<finding.finding_key>>
                     ELSE <<finding.source, ":", finding.asset_id, ":",
                            finding.finding_id>>,
     scored_finding_id |-> finding.id,
     scan_run_id |-> NoneInt,
     event_type |-> event_type,
     event_at |-> event_at,
     old_value |-> _serialize_json(old),
     new_value |-> _serialize_json(new),
     actor |-> stripped_or(actor, s_system),
     source |-> finding.source]

_to_disposition_result(finding) ==
    [id |-> finding.id,
     finding_id |-> finding.finding_id,
     disposition |-> IF finding.disposition = <<>> THEN s_none
                     ELSE finding.disposition,
     disposition_state |-> finding.disposition_state,
     disposition_reason |-> finding.disposition_reason,
     disposition_comment |-> finding.disposition_comment,
     disposition_created_at |-> finding.disposition_created_at,
     disposition_expires_at |-> finding.disposition_expires_at,
     disposition_created_by |-> finding.disposition_created_by]

\* INSERT of the events the session added
FlushedEvents(s) ==
    events \o [n \in 1..Len(s.new_events) |->
                  [s.new_events[n] EXCEPT !.id = NextId(events) + n - 1]]

\* POST /findings/{id}/disposition up to db.commit()
set_finding_disposition(p) ==
    /\ pc[p] = "start"
    /\ req[p].op = "set_finding_disposition"
    /\ IF ~Exists(req[p].finding_db_id)
       THEN Respond(p, 404, [detail |-> <<"Finding not found.">>])
       ELSE LET finding == findings[Index(req[p].finding_db_id)]
                payload == req[p].payload
                norm == _normalize_disposition(payload.disposition)
            IN  IF ~norm.ok
                THEN Respond(p, 400, [detail |-> <<"Invalid disposition.">>])
                ELSE IF norm.candidate = s_none
                THEN Respond(p, 400, [detail |-> <<"Use the clear disposition endpoint.">>])
                ELSE \E now \in utcnow(0) : \E event_at \in utcnow(now) :
                        LET cur == [finding EXCEPT
                                       !.disposition = norm.candidate,
                                       !.disposition_state = s_active,
                                       !.disposition_reason = stripped_or_none(payload.reason),
                                       !.disposition_comment = stripped_or_none(payload.comment),
                                       !.disposition_expires_at = payload.expires_at,
                                       !.disposition_created_at = now,
                                       !.disposition_created_by =
                                           stripped_or(payload.actor, s_manual)]
                            event == _record_finding_event(
                                         cur, "disposition_changed",
                                         cur.disposition_created_by,
                                         old_value(finding),
                                         [disposition |-> cur.disposition,
                                          disposition_state |-> cur.disposition_state,
                                          disposition_reason |-> cur.disposition_reason,
                                          disposition_comment |-> cur.disposition_comment,
                                          disposition_expires_at |-> cur.disposition_expires_at,
                                          disposition_created_by |-> cur.disposition_created_by],
                                         event_at)
                        IN  /\ sess' = [sess EXCEPT
                                           ![p].rows = <<[loaded |-> finding, cur |-> cur]>>,
                                           ![p].new_events = <<event>>]
                            /\ pc' = [pc EXCEPT ![p] = "set_commit"]
                            /\ UNCHANGED <<req, resp>>
    /\ UNCHANGED <<call, ret, configs, findings, events, budget>>

\* db.commit(), db.refresh(finding), _to_disposition_result
set_finding_disposition_commit(p) ==
    /\ pc[p] = "set_commit"
    /\ IF Stale(sess[p])
       THEN /\ Respond(p, 500, [detail |-> <<"Internal Server Error">>])
            /\ UNCHANGED <<findings, events>>
       ELSE /\ findings' = FlushedFindings(sess[p])
            /\ events' = FlushedEvents(sess[p])
            /\ Respond(p, 200,
                       _to_disposition_result(findings'[Index(req[p].finding_db_id)]))
    /\ UNCHANGED <<call, ret, configs, budget>>

\* a clear that leaves the created_at stamp of the last set in place
clear_finding_disposition_keeps_stamp(p) ==
    /\ pc[p] = "start"
    /\ req[p].op = "clear_finding_disposition"
    /\ IF ~Exists(req[p].finding_db_id)
       THEN Respond(p, 404, [detail |-> <<"Finding not found.">>])
       ELSE LET finding == findings[Index(req[p].finding_db_id)]
            IN  \E event_at \in utcnow(0) :
                    LET cur == [finding EXCEPT
                                   !.disposition = s_none,
                                   !.disposition_state = NoneStr,
                                   !.disposition_reason = NoneStr,
                                   !.disposition_comment = NoneStr,
                                   !.disposition_expires_at = NoneInt,
                                   !.disposition_created_by = NoneStr]
                        event == _record_finding_event(
                                     cur, "disposition_changed",
                                     stripped_or(req[p].actor, s_manual),
                                     old_value(finding),
                                     [disposition |-> s_none],
                                     event_at)
                    IN  /\ sess' = [sess EXCEPT
                                       ![p].rows = <<[loaded |-> finding, cur |-> cur]>>,
                                       ![p].new_events = <<event>>]
                        /\ pc' = [pc EXCEPT ![p] = "clr_commit"]
                        /\ UNCHANGED <<req, resp>>
    /\ UNCHANGED <<call, ret, configs, findings, events, budget>>

\* POST /findings/{id}/disposition/clear up to db.commit()
clear_finding_disposition(p) ==
    /\ pc[p] = "start"
    /\ req[p].op = "clear_finding_disposition"
    /\ IF ~Exists(req[p].finding_db_id)
       THEN Respond(p, 404, [detail |-> <<"Finding not found.">>])
       ELSE LET finding == findings[Index(req[p].finding_db_id)]
            IN  \E event_at \in utcnow(0) :
                    LET cur == [finding EXCEPT
                                   !.disposition = s_none,
                                   !.disposition_state = NoneStr,
                                   !.disposition_reason = NoneStr,
                                   !.disposition_comment = NoneStr,
                                   !.disposition_created_at = NoneInt,
                                   !.disposition_expires_at = NoneInt,
                                   !.disposition_created_by = NoneStr]
                        event == _record_finding_event(
                                     cur, "disposition_changed",
                                     stripped_or(req[p].actor, s_manual),
                                     old_value(finding),
                                     [disposition |-> s_none],
                                     event_at)
                    IN  /\ sess' = [sess EXCEPT
                                       ![p].rows = <<[loaded |-> finding, cur |-> cur]>>,
                                       ![p].new_events = <<event>>]
                        /\ pc' = [pc EXCEPT ![p] = "clr_commit"]
                        /\ UNCHANGED <<req, resp>>
    /\ UNCHANGED <<call, ret, configs, findings, events, budget>>

\* db.commit(), db.refresh(finding), _to_disposition_result
clear_finding_disposition_commit(p) ==
    /\ pc[p] = "clr_commit"
    /\ IF Stale(sess[p])
       THEN /\ Respond(p, 500, [detail |-> <<"Internal Server Error">>])
            /\ UNCHANGED <<findings, events>>
       ELSE /\ findings' = FlushedFindings(sess[p])
            /\ events' = FlushedEvents(sess[p])
            /\ Respond(p, 200,
                       _to_disposition_result(findings'[Index(req[p].finding_db_id)]))
    /\ UNCHANGED <<call, ret, configs, budget>>

-----------------------------------------------------------------------------
(* app/services/kev_enrichment.py: the KEV catalog *)

NoRecord == [absent |-> TRUE]

\* the value of one character of a number
digit(c) == CHOOSE n \in 0..9 : Digits[n + 1] = c

\* datetime.strptime for the formats %Y-%m-%d and %m/%d/%Y, zero-padded; the
\* datetime is held as the number yyyymmdd
strptime(raw, fmt) ==
    LET iso == fmt = "%Y-%m-%d"
        seps == IF iso THEN {5, 8} ELSE {3, 6}
        sep == IF iso THEN "-" ELSE "/"
        num(a, b) == IF b - a = 3
                     THEN 1000 * digit(raw[a]) + 100 * digit(raw[a + 1])
                          + 10 * digit(raw[a + 2]) + digit(raw[b])
                     ELSE 10 * digit(raw[a]) + digit(raw[b])
        y == IF iso THEN num(1, 4) ELSE num(7, 10)
        m == IF iso THEN num(6, 7) ELSE num(1, 2)
        d == IF iso THEN num(9, 10) ELSE num(4, 5)
        well_formed ==
            /\ Len(raw) = 10
            /\ \A i \in 1..10 :
                  IF i \in seps THEN raw[i] = sep
                  ELSE \E n \in 1..10 : Digits[n] = raw[i]
    IN  IF well_formed /\ m \in 1..12 /\ d \in 1..31 /\ y >= 1
        THEN 10000 * y + 100 * m + d
        ELSE NoneInt

_parse_date(value) ==
    LET raw == strip(or_empty(value))
    IN  IF raw = <<>> THEN NoneInt
        ELSE IF strptime(raw, "%Y-%m-%d") # NoneInt THEN strptime(raw, "%Y-%m-%d")
        ELSE strptime(raw, "%m/%d/%Y")

\* the value of the first of `keys` that the row holds with a non-empty value
_first_present(row, keys) ==
    LET present == {i \in 1..Len(keys) :
                       /\ keys[i] \in DOMAIN row
                       /\ row[keys[i]] \notin {NoneStr, <<>>}}
    IN  IF present = {} THEN NoneStr
        ELSE row[keys[CHOOSE i \in present : \A j \in present : i <= j]]

\* the KevRecord built from one row
KevRecord(cve_id, row) ==
    [cve_id |-> cve_id,
     date_added |-> _parse_date(_first_present(row, <<"dateAdded", "date_added">>)),
     due_date |-> _parse_date(_first_present(row, <<"dueDate", "due_date">>)),
     vendor_project |-> stripped_or_none(_first_present(row, <<"vendorProject">>)),
     product |-> stripped_or_none(_first_present(row, <<"product">>)),
     vulnerability_name |->
         stripped_or_none(_first_present(row, <<"vulnerabilityName">>)),
     short_description |->
         stripped_or_none(_first_present(row, <<"shortDescription">>)),
     required_action |-> stripped_or_none(_first_present(row, <<"requiredAction">>)),
     ransomware_use |->
         stripped_or_none(_first_present(row, <<"knownRansomwareCampaignUse">>))]

\* the cve_id the loader reads from a row (empty: the row is skipped)
row_cve_id(row) ==
    upper(strip(or_empty(_first_present(row, <<"cveID", "cveId", "CVE", "cve">>))))

\* a loader that keeps the entries of every file it can read and adds the
\* rows of csv_path to them
load_kev_catalog_merging(files, csv_path) ==
    IF csv_path \notin DOMAIN files
    THEN [ok |-> FALSE, error |-> <<"KEV CSV not found">>]
    ELSE IF files[csv_path].fieldnames = <<>>
    THEN [ok |-> FALSE, error |-> <<"KEV CSV appears empty or missing headers.">>]
    ELSE LET all == UNION {{<<path, i>> : i \in 1..Len(files[path].rows)} :
                              path \in DOMAIN files}
             ids == {row_cve_id(files[e[1]].rows[e[2]]) : e \in all} \ {<<>>}
             some(id) == CHOOSE e \in all : row_cve_id(files[e[1]].rows[e[2]]) = id
         IN  [ok |-> TRUE,
              catalog |-> [id \in ids |->
                              KevRecord(id, files[some(id)[1]].rows[some(id)[2]])]]

\* files: a sequence of path -> file pairs is the directory; a file has the
\* header of its first line and its rows as dicts
load_kev_catalog(files, csv_path) ==
    IF csv_path \notin DOMAIN files
    THEN [ok |-> FALSE, error |-> <<"KEV CSV not found">>]
    ELSE IF files[csv_path].fieldnames = <<>>
    THEN [ok |-> FALSE, error |-> <<"KEV CSV appears empty or missing headers.">>]
    ELSE LET rows == files[csv_path].rows
             ids == {row_cve_id(rows[i]) : i \in 1..Len(rows)} \ {<<>>}
             last(id) == CHOOSE i \in 1..Len(rows) :
                            /\ row_cve_id(rows[i]) = id
                            /\ \A j \in 1..Len(rows) :
                                  row_cve_id(rows[j]) = id => j <= i
         IN  [ok |-> TRUE,
              catalog |-> [id \in ids |-> KevRecord(id, rows[last(id)])]]

\* a lookup by the identifier as it is stored, neither trimmed nor upper-cased
kev_record_for_cve_exact(catalog, cve_id) ==
    IF DOMAIN catalog = {} \/ cve_id \in {NoneStr, <<>>} THEN NoRecord
    ELSE IF cve_id \in DOMAIN catalog THEN catalog[cve_id]
    ELSE NoRecord

kev_record_for_cve(catalog, cve_id) ==
    IF DOMAIN catalog = {} \/ cve_id \in {NoneStr, <<>>} THEN NoRecord
    ELSE IF upper(strip(cve_id)) \in DOMAIN catalog
    THEN catalog[upper(strip(cve_id))]
    ELSE NoRecord

-----------------------------------------------------------------------------
(* The files on disk *)

c_CVE1 == <<"C", "V", "E", "-", "1">>

c_CVE2 == <<"C", "V", "E", "-", "2">>

d_2024_01_02 == <<"2", "0", "2", "4", "-", "0", "1", "-", "0", "2">>

d_01_23_2024 == <<"0", "1", "/", "2", "3", "/", "2", "0", "2", "4">>

s_Acme == <<" ", "A", "c", "m", "e", " ">>

p_a == <<"a", ".", "c", "s", "v">>

p_b == <<"b", ".", "c", "s", "v">>

p_empty == <<"e", ".", "c", "s", "v">>

p_nohdr == <<"h", ".", "c", "s", "v">>

p_missing == <<"x", ".", "c", "s", "v">>

\* a.csv lists CVE-1 (lower case, padded, listed twice: the last row counts)
\* and a row without an id; b.csv lists CVE-2 under the column "cve"; e.csv
\* has a header and no rows; h.csv is empty
Files ==
    [path \in {p_a, p_b, p_empty, p_nohdr} |->
        CASE path = p_a ->
                [fieldnames |-> <<"cveID", "dateAdded", "dueDate", "vendorProject">>,
                 rows |-> <<[cveID |-> c_CVE1, dateAdded |-> <<"s", "o", "o", "n">>,
                             dueDate |-> <<>>, vendorProject |-> <<>>],
                            [cveID |-> <<>>, dateAdded |-> d_2024_01_02,
                             dueDate |-> <<>>, vendorProject |-> s_Acme],
                            [cveID |-> <<" ", "c", "v", "e", "-", "1", " ">>,
                             dateAdded |-> d_2024_01_02,
                             dueDate |-> d_01_23_2024, vendorProject |-> s_Acme]>>]
          [] path = p_b ->
                [fieldnames |-> <<"cve", "product">>,
                 rows |-> <<[cve |-> c_CVE2, product |-> <<"X">>]>>]
          [] path = p_empty ->
                [fieldnames |-> <<"cveID">>, rows |-> <<>>]
          [] path = p_nohdr ->
                [fieldnames |-> <<>>, rows |-> <<>>]]

-----------------------------------------------------------------------------
(* app/api/scores.py: POST /kev/re-enrich *)

\* the row with the KEV columns of `record` (all None without a record)
kev_columns(finding, record) ==
    [finding EXCEPT
        !.is_kev = record # NoRecord,
        !.kev_date_added = IF record # NoRecord THEN record.date_added ELSE NoneInt,
        !.kev_due_date = IF record # NoRecord THEN record.due_date ELSE NoneInt,
        !.kev_vendor_project =
            IF record # NoRecord THEN record.vendor_project ELSE NoneStr,
        !.kev_product = IF record # NoRecord THEN record.product ELSE NoneStr,
        !.kev_vulnerability_name =
            IF record # NoRecord THEN record.vulnerability_name ELSE NoneStr,
        !.kev_short_description =
            IF record # NoRecord THEN record.short_description ELSE NoneStr,
        !.kev_required_action =
            IF record # NoRecord THEN record.required_action ELSE NoneStr,
        !.kev_ransomware_use =
            IF record # NoRecord THEN record.ransomware_use ELSE NoneStr]

\* a handler that fetches (and so creates) the config before it checks the path
re_enrich_findings_with_kev_config_first(p) ==
    /\ pc[p] = "start"
    /\ req[p].op = "re_enrich_findings_with_kev"
    /\ LET csv_path == strip(or_empty(req[p].csv_path))
           loaded == load_kev_catalog(Files, csv_path)
           created == IF configs = <<>> THEN <<DEFAULT_RISK_WEIGHTS>> ELSE configs
       IN  /\ configs' = created
           /\ IF csv_path = <<>>
              THEN Respond(p, 400, [detail |-> <<"csv_path is required.">>])
              ELSE IF ~loaded.ok
              THEN Respond(p, 400, [detail |-> loaded.error])
              ELSE /\ pc' = [pc EXCEPT ![p] = "kev_query"]
                   /\ sess' = [sess EXCEPT ![p].config_id = 1,
                                           ![p].config_loaded = created[1],
                                           ![p].config = created[1],
                                           ![p].kev_catalog = loaded.catalog]
                   /\ UNCHANGED <<req, resp>>
    /\ UNCHANGED <<call, ret, findings, events, budget>>

\* csv_path check, load_kev_catalog, then get_or_create_scoring_config
re_enrich_findings_with_kev(p) ==
    /\ pc[p] = "start"
    /\ req[p].op = "re_enrich_findings_with_kev"
    /\ LET csv_path == strip(or_empty(req[p].csv_path))
           loaded == load_kev_catalog(Files, csv_path)
       IN  IF csv_path = <<>>
           THEN Respond(p, 400, [detail |-> <<"csv_path is required.">>])
           ELSE IF ~loaded.ok
           THEN Respond(p, 400, [detail |-> loaded.error])
           ELSE IF configs # <<>>
           THEN /\ pc' = [pc EXCEPT ![p] = "kev_query"]
                /\ sess' = [sess EXCEPT ![p].config_id = 1,
                                        ![p].config_loaded = configs[1],
                                        ![p].config = configs[1],
                                        ![p].kev_catalog = loaded.catalog]
                /\ UNCHANGED <<req, resp>>
           ELSE /\ pc' = [pc EXCEPT ![p] = "config_insert"]
                /\ sess' = [sess EXCEPT ![p].kev_catalog = loaded.catalog]
                /\ UNCHANGED <<req, resp>>
    /\ UNCHANGED <<call, ret, configs, findings, events, budget>>

\* findings = db.query(models.ScoredFinding).all()
re_enrich_query(p) ==
    /\ pc[p] = "kev_query"
    /\ sess' = [sess EXCEPT ![p].rows =
                    [n \in 1..Len(findings) |->
                        [loaded |-> findings[n], cur |-> findings[n]]],
                            ![p].i = 1]
    /\ pc' = [pc EXCEPT ![p] = IF findings = <<>> THEN "kev_commit" ELSE "kev_loop"]
    /\ UNCHANGED <<call, ret, configs, findings, events, req, resp, budget>>

\* the loop turn without `if not changed: continue`: every row is assigned,
\* rescored and counted
re_enrich_finding_without_continue(p) ==
    /\ pc[p] = "kev_loop"
    /\ LET i == sess[p].i
           finding == sess[p].rows[i].cur
           record == kev_record_for_cve(sess[p].kev_catalog, finding.cve_id)
           new_is_kev == record # NoRecord
           weights == weights_from_config(sess[p].config)
       IN  /\ sess' = [sess EXCEPT
                          ![p].rows[i].cur =
                              _rescore_finding_in_place(
                                  kev_columns(finding, record), weights),
                          ![p].marked =
                              IF ~finding.is_kev /\ new_is_kev THEN @ + 1 ELSE @,
                          ![p].cleared =
                              IF finding.is_kev /\ ~new_is_kev THEN @ + 1 ELSE @,
                          ![p].updated_rows = @ + 1,
                          ![p].i = i + 1]
           /\ pc' = [pc EXCEPT ![p] = IF i = Len(sess[p].rows) THEN "kev_commit"
                                      ELSE "kev_loop"]
    /\ UNCHANGED <<call, ret, configs, findings, events, req, resp, budget>>

\* the loop turn that counts as marked every changed row the catalog lists,
\* and as cleared every changed row it does not list
re_enrich_finding_counts_listed(p) ==
    /\ pc[p] = "kev_loop"
    /\ LET i == sess[p].i
           finding == sess[p].rows[i].cur
           record == kev_record_for_cve(sess[p].kev_catalog, finding.cve_id)
           new_is_kev == record # NoRecord
           changed == kev_columns(finding, record) # finding
           weights == weights_from_config(sess[p].config)
       IN  /\ sess' = IF ~changed
                      THEN [sess EXCEPT ![p].i = i + 1]
                      ELSE [sess EXCEPT
                               ![p].rows[i].cur =
                                   _rescore_finding_in_place(
                                       kev_columns(finding, record), weights),
                               ![p].marked = IF new_is_kev THEN @ + 1 ELSE @,
                               ![p].cleared = IF ~new_is_kev THEN @ + 1 ELSE @,
                               ![p].updated_rows = @ + 1,
                               ![p].i = i + 1]
           /\ pc' = [pc EXCEPT ![p] = IF i = Len(sess[p].rows) THEN "kev_commit"
                                      ELSE "kev_loop"]
    /\ UNCHANGED <<call, ret, configs, findings, events, req, resp, budget>>

\* one turn of the loop over findings
re_enrich_finding(p) ==
    /\ pc[p] = "kev_loop"
    /\ LET i == sess[p].i
           finding == sess[p].rows[i].cur
           record == kev_record_for_cve(sess[p].kev_catalog, finding.cve_id)
           new_is_kev == record # NoRecord
           changed == kev_columns(finding, record) # finding
           weights == weights_from_config(sess[p].config)
       IN  /\ sess' = IF ~changed
                      THEN [sess EXCEPT ![p].i = i + 1]
                      ELSE [sess EXCEPT
                               ![p].rows[i].cur =
                                   _rescore_finding_in_place(
                                       kev_columns(finding, record), weights),
                               ![p].marked =
                                   IF ~finding.is_kev /\ new_is_kev THEN @ + 1 ELSE @,
                               ![p].cleared =
                                   IF finding.is_kev /\ ~new_is_kev THEN @ + 1 ELSE @,
                               ![p].updated_rows = @ + 1,
                               ![p].i = i + 1]
           /\ pc' = [pc EXCEPT ![p] = IF i = Len(sess[p].rows) THEN "kev_commit"
                                      ELSE "kev_loop"]
    /\ UNCHANGED <<call, ret, configs, findings, events, req, resp, budget>>

\* db.commit() and the KevReenrichResult
re_enrich_commit(p) ==
    /\ pc[p] = "kev_commit"
    /\ IF Stale(sess[p])
       THEN /\ Respond(p, 500, [detail |-> <<"Internal Server Error">>])
            /\ UNCHANGED findings
       ELSE /\ findings' = FlushedFindings(sess[p])
            /\ Respond(p, 200, [csv_path |-> strip(or_empty(req[p].csv_path)),
                                updated_rows |-> sess[p].updated_rows,
                                kev_rows_marked |-> sess[p].marked,
                                kev_rows_cleared |-> sess[p].cleared])
    /\ UNCHANGED <<call, ret, configs, events, budget>>

-----------------------------------------------------------------------------
(* app/api/scores.py: PATCH /sources/{source_name}, DELETE /sources/{source_name} *)

\* the checks of the two names and the count of the rows of old_source
rename_source(p) ==
    /\ pc[p] = "start"
    /\ req[p].op = "rename_source"
    /\ LET old_source == strip(req[p].source_name)
           new_source == strip(req[p].new_source)
           existing == Cardinality({n \in 1..Len(findings) :
                                       findings[n].source = text(old_source)})
       IN  IF old_source = <<>>
           THEN Respond(p, 400, [detail |-> <<"Existing source name is required.">>])
           ELSE IF new_source = <<>>
           THEN Respond(p, 400, [detail |-> <<"New source name is required.">>])
           ELSE IF Len(new_source) > 80
           THEN Respond(p, 400,
                        [detail |-> <<"New source name must be <= 80 characters.">>])
           ELSE IF existing = 0
           THEN Respond(p, 404, [detail |-> <<"Source not found.">>])
           ELSE /\ pc' = [pc EXCEPT ![p] = "ren_commit"]
                /\ UNCHANGED <<req, sess, resp>>
    /\ UNCHANGED <<call, ret, configs, findings, events, budget>>

\* UPDATE scored_findings SET source = new_source WHERE source = old_source,
\* db.commit() and the SourceRenameResult
rename_source_commit(p) ==
    /\ pc[p] = "ren_commit"
    /\ LET old_source == text(strip(req[p].source_name))
           new_source == text(strip(req[p].new_source))
           matched == {n \in 1..Len(findings) : findings[n].source = old_source}
       IN  /\ findings' = [n \in 1..Len(findings) |->
                              IF n \in matched
                              THEN [findings[n] EXCEPT !.source = new_source]
                              ELSE findings[n]]
           /\ Respond(p, 200, [old_source |-> old_source, new_source |-> new_source,
                               updated_rows |-> Cardinality(matched)])
    /\ UNCHANGED <<call, ret, configs, events, budget>>

\* a delete that also removes the audit events of the rows it deletes
delete_source_commit_cascade(p) ==
    /\ pc[p] = "del_commit"
    /\ LET normalized_source == text(strip(req[p].source_name))
           kept(row) == row.source # normalized_source
           deleted_rows == Len(findings) - Len(SelectSeq(findings, kept))
           gone == {findings[n].id : n \in {m \in 1..Len(findings) : ~kept(findings[m])}}
           survives(event) == event.scored_finding_id \notin gone
       IN  IF deleted_rows = 0
           THEN /\ Respond(p, 404, [detail |-> <<"Source not found.">>])
                /\ UNCHANGED <<findings, events>>
           ELSE /\ findings' = SelectSeq(findings, kept)
                /\ events' = SelectSeq(events, survives)
                /\ Respond(p, 200, [source |-> normalized_source,
                                    deleted_rows |-> deleted_rows,
                                    total_findings_remaining |-> Len(findings')])
    /\ UNCHANGED <<call, ret, configs, budget>>

\* the check of the name
delete_source(p) ==
    /\ pc[p] = "start"
    /\ req[p].op = "delete_source"
    /\ IF strip(req[p].source_name) = <<>>
       THEN Respond(p, 400, [detail |-> <<"Source name is required.">>])
       ELSE /\ pc' = [pc EXCEPT ![p] = "del_commit"]
            /\ UNCHANGED <<req, sess, resp>>
    /\ UNCHANGED <<call, ret, configs, findings, events, budget>>

\* DELETE FROM scored_findings WHERE source = normalized_source, then
\* db.rollback() and 404 when no row matched, else db.commit() and the count
delete_source_commit(p) ==
    /\ pc[p] = "del_commit"
    /\ LET normalized_source == text(strip(req[p].source_name))
           kept(row) == row.source # normalized_source
           deleted_rows == Len(findings) - Len(SelectSeq(findings, kept))
       IN  IF deleted_rows = 0
           THEN /\ Respond(p, 404, [detail |-> <<"Source not found.">>])
                /\ UNCHANGED findings
           ELSE /\ findings' = SelectSeq(findings, kept)
                /\ Respond(p, 200, [source |-> normalized_source,
                                    deleted_rows |-> deleted_rows,
                                    total_findings_remaining |-> Len(findings')])
    /\ UNCHANGED <<call, ret, configs, events, budget>>

-----------------------------------------------------------------------------
(* app/seed.py: the rows of a Qualys CSV *)

ASSET_CRITICALITY_MAP == [low |-> 1, medium |-> 2, high |-> 3, critical |-> 4]

REQUIRED_CSV_COLUMNS ==
    {"finding_id", "asset_id", "cvss_score", "internet_exposed",
     "asset_criticality", "vuln_age_days", "auth_required", "times_detected"}

\* table epss_scores (cve_id -> percentile, thousandths): no operation of the
\* service writes it
epss_scores == [cve_id \in {} |-> 0]

fetch_epss_score(cve_id) ==
    IF cve_id \in {NoneStr, <<>>} THEN 0
    ELSE IF text(cve_id) \in DOMAIN epss_scores THEN epss_scores[text(cve_id)]
    ELSE 0

\* str(value).strip().lower() in ("1", "true", "yes")
_as_bool(value) ==
    IF value = NoneStr THEN FALSE
    ELSE text(lower(strip(value))) \in {"1", "true", "yes"}

IsDigits(s) == s # <<>> /\ \A i \in 1..Len(s) : \E n \in 1..10 : Digits[n] = s[i]

RECURSIVE DigitsValue(_)
DigitsValue(s) ==
    IF s = <<>> THEN 0 ELSE 10 * DigitsValue(SubSeq(s, 1, Len(s) - 1)) + digit(s[Len(s)])

\* int(value): surrounding whitespace, an optional sign, decimal digits;
\* NoneInt stands for the TypeError or ValueError
int_literal(value) ==
    LET unsigned(digits) == IF IsDigits(digits) THEN DigitsValue(digits) ELSE NoneInt
        negated(magnitude) == IF magnitude = NoneInt THEN NoneInt ELSE -magnitude
        signed(raw) ==
            IF raw # <<>> /\ raw[1] = "-" THEN negated(unsigned(Tail(raw)))
            ELSE IF raw # <<>> /\ raw[1] = "+" THEN unsigned(Tail(raw))
            ELSE unsigned(raw)
    IN  signed(strip(or_empty(value)))

\* float(value) in tenths for decimal literals with at most one fractional
\* digit; NoneInt stands for the TypeError or ValueError
float_literal(value) ==
    LET tenths_of(whole, tenths) ==
            IF ~IsDigits(whole) \/ ~IsDigits(tenths) THEN NoneInt
            ELSE 10 * DigitsValue(whole) + DigitsValue(tenths)
        unsigned(body) ==
            IF Len(body) >= 2 /\ body[Len(body) - 1] = "."
            THEN tenths_of(IF Len(body) = 2 THEN <<"0">>
                           ELSE SubSeq(body, 1, Len(body) - 2),
                           <<body[Len(body)]>>)
            ELSE IF Len(body) >= 2 /\ body[Len(body)] = "."
            THEN tenths_of(SubSeq(body, 1, Len(body) - 1), <<"0">>)
            ELSE tenths_of(body, <<"0">>)
        negated(magnitude) == IF magnitude = NoneInt THEN NoneInt ELSE -magnitude
        signed(raw) ==
            IF raw # <<>> /\ raw[1] = "-" THEN negated(unsigned(Tail(raw)))
            ELSE IF raw # <<>> /\ raw[1] = "+" THEN unsigned(Tail(raw))
            ELSE unsigned(raw)
    IN  signed(strip(or_empty(value)))

RowError(row_num, message) ==
    [ok |-> FALSE, error |-> <<"Row " \o ToString(row_num) \o ": " \o message>>]

\* the keywords of ScoredFinding(...) that are taken from the scored dict
SeedKeywords ==
    {"finding_id", "asset_id", "asset_criticality", "cve_id", "cvss_score",
     "epss_score", "vuln_age_days", "internet_exposed", "auth_required",
     "risk_score", "risk_band"}

\* the ScoredFinding of one CSV row, or the ValueError it raises
_build_scored_finding_from_row(row, row_num, source, weights) ==
    LET finding_id == strip(or_empty(Get(row, "finding_id", NoneStr)))
        asset_id == strip(or_empty(Get(row, "asset_id", NoneStr)))
        asset_crit_label == strip(or_empty(Get(row, "asset_criticality", NoneStr)))
        crit_key == text(lower(asset_crit_label))
        cvss_score == float_literal(Get(row, "cvss_score", NoneStr))
        epss_score == fetch_epss_score(Get(row, "cve_id", NoneStr))
        vuln_age_days == int_literal(Get(row, "vuln_age_days", NoneStr))
        times_detected == int_literal(Get(row, "times_detected", NoneStr))
        port == Get(row, "port", NoneStr)
        raw_finding ==
            [finding_id |-> text(finding_id),
             asset_id |-> text(asset_id),
             cvss_score |-> cvss_score,
             epss_score |-> epss_score,
             internet_exposed |-> _as_bool(Get(row, "internet_exposed", <<>>)),
             asset_criticality_label |-> text(asset_crit_label),
             asset_criticality |-> ASSET_CRITICALITY_MAP[crit_key],
             vuln_age_days |-> vuln_age_days,
             auth_required |-> _as_bool(Get(row, "auth_required", <<>>)),
             cve_id |-> Get(row, "cve_id", NoneStr)]
    IN  IF finding_id = <<>> THEN RowError(row_num, "'finding_id' is required.")
        ELSE IF asset_id = <<>> THEN RowError(row_num, "'asset_id' is required.")
        ELSE IF crit_key \notin DOMAIN ASSET_CRITICALITY_MAP
        THEN RowError(row_num, "invalid 'asset_criticality' value '"
                                   \o text(asset_crit_label) \o "'.")
        ELSE IF cvss_score = NoneInt
        THEN RowError(row_num, "'cvss_score' must be a number.")
        ELSE IF cvss_score < 0 \/ cvss_score > 100
        THEN RowError(row_num, "'cvss_score' must be between 0 and 10.")
        ELSE IF epss_score < 0 \/ epss_score > 1000
        THEN RowError(row_num, "'epss_score' must be between 0 and 1.")
        ELSE IF vuln_age_days = NoneInt
        THEN RowError(row_num, "'vuln_age_days' must be an integer.")
        ELSE IF times_detected = NoneInt
        THEN RowError(row_num, "'times_detected' must be an integer.")
        ELSE IF port \notin {NoneStr, <<>>} /\ int_literal(port) = NoneInt
        THEN RowError(row_num, "'port' must be an integer.")
        ELSE [ok |-> TRUE,
              finding |-> ScoredFinding(
                  [k \in {"source"} \cup SeedKeywords |->
                      IF k = "source" THEN source
                      ELSE score_finding_dict(raw_finding, weights)[k]])]

\* csv: what csv.DictReader makes of the text (fieldnames, rows); the result
\* is the list of rows to add or the ValueError
parse_qualys_csv_to_scored_findings(csv, source, weights) ==
    LET headers == {csv.fieldnames[i] : i \in 1..Len(csv.fieldnames)} \ {""}
        blank(row) == \A k \in DOMAIN row : strip(or_empty(row[k])) = <<>>
        data == {i \in 1..Len(csv.rows) : ~blank(csv.rows[i])}
        built == [i \in 1..Len(csv.rows) |->
                     _build_scored_finding_from_row(csv.rows[i], i + 1, source, weights)]
        failed == {i \in data : ~built[i].ok}
        first == CHOOSE i \in failed : \A j \in failed : i <= j
        kept(i) == i \in data
        order == SelectSeq([i \in 1..Len(csv.rows) |-> i], kept)
    IN  IF csv.fieldnames = <<>>
        THEN [ok |-> FALSE, error |-> <<"CSV appears empty or missing a header row.">>]
        ELSE IF REQUIRED_CSV_COLUMNS \ headers # {}
        THEN [ok |-> FALSE, error |-> <<"CSV is missing required columns.">>]
        ELSE IF failed # {} THEN [ok |-> FALSE, error |-> built[first].error]
        ELSE IF data = {}
        THEN [ok |-> FALSE, error |-> <<"CSV has no data rows to insert.">>]
        ELSE [ok |-> TRUE,
              rows_to_add |-> [n \in 1..Len(order) |-> built[order[n]].finding]]

\* the KEV catalog of the environment: none is configured
load_kev_catalog_from_env == <<>>

-----------------------------------------------------------------------------
(* app/api/scores.py: POST /seed/qualys-csv *)

\* str.endswith(suffix)
endswith(s, suffix) ==
    /\ Len(s) >= Len(suffix)
    /\ SubSeq(s, Len(s) - Len(suffix) + 1, Len(s)) = suffix

\* the checks of the form fields and of the upload, then
\* get_or_create_scoring_config
seed_qualys_csv(p) ==
    /\ pc[p] = "start"
    /\ req[p].op = "seed_qualys_csv"
    /\ LET source_name == strip(req[p].source)
           filename == IF req[p].file.filename \in {NoneStr, <<>>}
                       THEN <<"u", "p", "l", "o", "a", "d", "e", "d", ".", "c", "s", "v">>
                       ELSE req[p].file.filename
       IN  IF source_name = <<>>
           THEN Respond(p, 400, [detail |-> <<"Source name is required.">>])
           ELSE IF Len(source_name) > 80
           THEN Respond(p, 400, [detail |-> <<"Source name must be <= 80 characters.">>])
           ELSE IF ~endswith(lower(filename), <<".", "c", "s", "v">>)
           THEN Respond(p, 400, [detail |-> <<"Only CSV files are supported.">>])
           ELSE IF req[p].file.size = 0
           THEN Respond(p, 400, [detail |-> <<"Uploaded file is empty.">>])
           ELSE IF req[p].file.size > 10 * 1024 * 1024
           THEN Respond(p, 413, [detail |-> <<"CSV file is too large (max 10MB).">>])
           ELSE IF ~req[p].file.utf8
           THEN Respond(p, 400, [detail |-> <<"CSV must be UTF-8 encoded.">>])
           ELSE get_or_create_select(p)
    /\ UNCHANGED <<call, ret, configs, findings, events, budget>>

\* parse_qualys_csv_to_scored_findings, db.add_all, db.commit and the
\* SeedUploadResult; a ValueError rolls back and answers 400
seed_qualys_csv_commit(p) ==
    /\ pc[p] = "seed_commit"
    /\ LET source_name == text(strip(req[p].source))
           parsed == parse_qualys_csv_to_scored_findings(
                         req[p].file.csv, source_name,
                         weights_from_config(sess[p].config))
       IN  IF ~parsed.ok
           THEN /\ Respond(p, 400, [detail |-> parsed.error])
                /\ UNCHANGED findings
           ELSE /\ findings' = FlushedFindings(
                                   [sess[p] EXCEPT !.new_rows = parsed.rows_to_add])
                /\ Respond(p, 200, [inserted |-> Len(parsed.rows_to_add),
                                    source |-> source_name,
                                    total_findings |-> Len(findings')])
    /\ UNCHANGED <<call, ret, configs, events, budget>>

-----------------------------------------------------------------------------
(* The requests the environment sends *)

c_cve1 == <<"c", "v", "e", "-", "1">>

\* bodies of POST /scores/ (schemas.ScoredFindingCreate)
FindingIn(fid, cvss, epss, exposed, crit, cve, kev) ==
    [source |-> text(s_manual), finding_id |-> fid, asset_id |-> "A-1",
     cvss_score |-> cvss, epss_score |-> epss, internet_exposed |-> exposed,
     asset_criticality |-> crit, cve_id |-> cve, is_kev |-> kev]

CreateBodies ==
    {FindingIn("F-1", 100, 250, FALSE, 1, c_CVE2, FALSE),
     FindingIn("F-2", 50, 200, TRUE, 4, c_cve1, TRUE),
     FindingIn("F-3", 95, 960, FALSE, 0, NoneStr, FALSE),
     FindingIn("F-4", 120, -500, TRUE, 5, c_cve1, TRUE)}

Requests ==
    {[op |-> "get_risk_weights"]}
    \cup {[op |-> "create_scored_finding", finding_in |-> f] : f \in CreateBodies}
    \cup {[op |-> "update_risk_weights", payload |-> w] :
             w \in ValidPayloads \cup InvalidPayloads}

\* the requests of the specification of the two bulk operations
BulkRequests ==
    {[op |-> "get_risk_weights"]}
    \cup {[op |-> "create_scored_finding", finding_in |-> f] :
             f \in {FindingIn("F-1", 100, 250, FALSE, 1, c_CVE2, FALSE),
                    FindingIn("F-2", 50, 200, TRUE, 4, c_cve1, TRUE)}}
    \cup {[op |-> "update_risk_weights", payload |-> w] :
             w \in {W(0, 0, 0, 0, 1000, -1000), W(1000, 0, 0, 0, 0, -100),
                    W(300, 250, 200, 150, 100, 50)}}
    \cup {[op |-> "re_enrich_findings_with_kev", csv_path |-> path] :
             path \in {p_a, <<" ">> \o p_b \o <<" ">>, p_empty, p_nohdr,
                       p_missing, <<" ">>}}

\* the requests of the two-worker specification
ConcRequests ==
    {[op |-> "get_risk_weights"]}
    \cup {[op |-> "create_scored_finding", finding_in |-> f] :
             f \in {FindingIn("F-1", 100, 250, FALSE, 1, NoneStr, FALSE),
                    FindingIn("F-2", 50, 200, TRUE, 4, c_cve1, TRUE)}}
    \cup {[op |-> "update_risk_weights", payload |-> w] :
             w \in {W(1000, 0, 0, 0, 0, -100), W(300, 250, 200, 150, 100, 0),
                    W(300, 250, 200, 150, 100, 50)}}

\* bodies of POST /findings/{id}/disposition
SetPayload(disposition, reason, comment, expires_at, actor) ==
    [disposition |-> disposition, reason |-> reason, comment |-> comment,
     expires_at |-> expires_at, actor |-> actor]

SetPayloads ==
    {SetPayload(s_ignored, NoneStr, NoneStr, NoneInt, NoneStr),
     SetPayload(<<" ", "R", "i", "s", "k", " ", "A", "c", "c", "e", "p", "t", "e", "d", " ">>,
                <<" ", "o", "k", " ">>, <<" ", " ">>, 9, <<" ", "b", "o", "b", " ">>),
     SetPayload(s_none, NoneStr, NoneStr, NoneInt, NoneStr),
     SetPayload(<<" ", "N", "O", "N", "E", " ">>, <<"o", "k">>, NoneStr, 9, <<"b", "o", "b">>),
     SetPayload(<<"w", "o", "n", "t", "f", "i", "x">>, NoneStr, NoneStr, NoneInt, NoneStr),
     SetPayload(<<>>, NoneStr, NoneStr, NoneInt, <<" ">>)}

\* ids of the path parameter: the rows that can exist and one that cannot
FindingIds == 1..(MaxFindings + 1)

\* uploads of POST /seed/qualys-csv
Upload(filename, size, utf8, fieldnames, rows) ==
    [filename |-> filename, size |-> size, utf8 |-> utf8,
     csv |-> [fieldnames |-> fieldnames, rows |-> rows]]

QualysColumns ==
    <<"finding_id", "asset_id", "cve_id", "cvss_score", "internet_exposed",
      "asset_criticality", "vuln_age_days", "auth_required", "times_detected">>

QualysRow(finding_id, cve_id, cvss_score, asset_criticality) ==
    [finding_id |-> finding_id, asset_id |-> <<"A", "-", "2">>, cve_id |-> cve_id,
     cvss_score |-> cvss_score, internet_exposed |-> <<"Y", "e", "s">>,
     asset_criticality |-> asset_criticality, vuln_age_days |-> <<"3", "0">>,
     auth_required |-> <<"0">>, times_detected |-> <<"1">>]

f_scan_csv == <<"S", "c", "a", "n", ".", "C", "S", "V">>

s_scan == <<" ", "s", "c", "a", "n", " ">>

s_lab == <<"l", "a", "b">>

\* one good row; a row with an unknown criticality
Uploads ==
    {Upload(f_scan_csv, 120, TRUE, QualysColumns,
            <<QualysRow(<<" ", "Q", "-", "1">>, c_CVE2, <<"7", ".", "5">>,
                        <<" ", "H", "i", "g", "h">>)>>),
     Upload(NoneStr, 120, TRUE, QualysColumns,
            <<QualysRow(<<"Q", "-", "2">>, c_CVE2, <<"7", ".", "5">>,
                        <<"u", "r", "g", "e", "n", "t">>)>>)}

\* the requests of the specification of the whole service
ServiceRequests ==
    {[op |-> "create_scored_finding",
      finding_in |-> FindingIn("F-2", 50, 200, TRUE, 4, c_cve1, TRUE)],
     [op |-> "update_risk_weights", payload |-> W(1000, 0, 0, 0, 0, -100)],
     [op |-> "re_enrich_findings_with_kev", csv_path |-> p_b],
     [op |-> "rename_source", source_name |-> s_scan, new_source |-> s_lab],
     [op |-> "clear_finding_disposition", finding_db_id |-> 1, actor |-> NoneStr]}
    \cup {[op |-> "seed_qualys_csv", source |-> s_scan, file |-> u] : u \in Uploads}
    \cup {[op |-> "delete_source", source_name |-> n] : n \in {s_scan, s_manual}}
    \cup {[op |-> "set_finding_disposition", finding_db_id |-> 1, payload |-> b] :
             b \in {SetPayload(s_ignored, NoneStr, NoneStr, 1, NoneStr),
                    SetPayload(<<"w", "o", "n", "t", "f", "i", "x">>,
                               NoneStr, NoneStr, NoneInt, NoneStr)}}

\* the requests of the specification of the audit log of one finding
AuditRequests ==
    {[op |-> "create_scored_finding",
      finding_in |-> FindingIn("F-1", 100, 250, FALSE, 1, NoneStr, FALSE)],
     [op |-> "update_risk_weights", payload |-> W(1000, 0, 0, 0, 0, -100)],
     [op |-> "rename_source", source_name |-> s_manual, new_source |-> s_lab],
     [op |-> "set_finding_disposition", finding_db_id |-> 1,
      payload |-> SetPayload(s_ignored, NoneStr, NoneStr, NoneInt, NoneStr)],
     [op |-> "clear_finding_disposition", finding_db_id |-> 1, actor |-> NoneStr]}

\* the requests of the disposition specification
DispRequests ==
    {[op |-> "create_scored_finding",
      finding_in |-> FindingIn("F-1", 100, 250, FALSE, 1, NoneStr, FALSE)]}
    \cup {[op |-> "set_finding_disposition", finding_db_id |-> id, payload |-> b] :
             id \in FindingIds, b \in SetPayloads}
    \cup {[op |-> "clear_finding_disposition", finding_db_id |-> id, actor |-> a] :
             id \in FindingIds, a \in {NoneStr, <<" ", "b", "o", "b", " ">>}}

-----------------------------------------------------------------------------
(* Specifications *)

\* an exception leaves the handler at a database call: get_db closes the
\* session, which discards everything it holds. PUT /weights reaches its
\* first database call only with a payload that passed validation, and
\* POST /kev/re-enrich only with a catalog that was loaded.
Fail(p) ==
    /\ pc[p] # "idle"
    /\ (pc[p] = "start" /\ req[p].op = "update_risk_weights")
          => _validate_risk_weights(req[p].payload) = <<>>
    /\ (pc[p] = "start" /\ req[p].op = "re_enrich_findings_with_kev")
          => /\ strip(or_empty(req[p].csv_path)) # <<>>
             /\ load_kev_catalog(Files, strip(or_empty(req[p].csv_path))).ok
    /\ Respond(p, 500, [detail |-> <<"Internal Server Error">>])
    /\ UNCHANGED <<call, ret, configs, findings, events, budget>>

NoCall == [absent |-> TRUE]

InitTables ==
    /\ configs = <<>>
    /\ findings = <<>>
    /\ events = <<>>
    /\ pc = [p \in Workers |-> "idle"]
    /\ req = [p \in Workers |-> NoReq]
    /\ sess = [p \in Workers |-> EmptySession]
    /\ resp = [p \in Workers |-> NoResp]
    /\ budget = MaxRequests

\* the service after start-up on an empty database, one request at a time
Init ==
    /\ call = NoCall
    /\ ret = NoRet
    /\ InitTables

Handler(p) ==
    \/ get_risk_weights(p)
    \/ create_scored_finding(p)
    \/ create_scored_finding_commit(p)
    \/ update_risk_weights(p)
    \/ update_risk_weights_query(p)
    \/ update_risk_weights_rescore(p)
    \/ update_risk_weights_commit(p)
    \/ get_or_create_insert(p)
    \/ get_or_create_refresh(p)
    \/ Fail(p)

KevHandler(p) ==
    \/ re_enrich_findings_with_kev(p)
    \/ re_enrich_query(p)
    \/ re_enrich_finding(p)
    \/ re_enrich_commit(p)

Next ==
    \/ \E r \in Requests : Receive(1, r, FALSE)
    \/ Handler(1)

\* weight updates and KEV re-enrichments, one request at a time
NextBulk ==
    \/ \E r \in BulkRequests : Receive(1, r, FALSE)
    \/ Handler(1)
    \/ KevHandler(1)

SpecBulk == Init /\ [][NextBulk]_vars

Spec == Init /\ [][Next]_vars

\* two request workers of the thread pool, interleaved at database steps
NextConc ==
    \E p \in Workers :
        \/ \E r \in ConcRequests : Receive(p, r, TRUE)
        \/ Handler(p)

SpecConc == Init /\ [][NextConc]_vars

\* creation, set and clear of dispositions, one request at a time
NextDisp ==
    \/ \E r \in DispRequests : Receive(1, r, FALSE)
    \/ create_scored_finding(1)
    \/ create_scored_finding_commit(1)
    \/ get_or_create_insert(1)
    \/ get_or_create_refresh(1)
    \/ set_finding_disposition(1)
    \/ set_finding_disposition_commit(1)
    \/ clear_finding_disposition(1)
    \/ clear_finding_disposition_commit(1)
    \/ Fail(1)

SpecDisp == Init /\ [][NextDisp]_vars

\* findings that are never deleted: creation, weight update, rename of the
\* source, set and clear, one request at a time
NextAudit ==
    \/ \E r \in AuditRequests : Receive(1, r, TRUE)
    \/ create_scored_finding(1)
    \/ create_scored_finding_commit(1)
    \/ get_or_create_insert(1)
    \/ get_or_create_refresh(1)
    \/ update_risk_weights(1)
    \/ update_risk_weights_query(1)
    \/ update_risk_weights_rescore(1)
    \/ update_risk_weights_commit(1)
    \/ rename_source(1)
    \/ rename_source_commit(1)
    \/ set_finding_disposition(1)
    \/ set_finding_disposition_commit(1)
    \/ clear_finding_disposition(1)
    \/ clear_finding_disposition_commit(1)
    \/ Fail(1)

SpecAudit == Init /\ [][NextAudit]_vars

\* every operation of the service, one request at a time, MaxRequests
\* requests in all
NextService ==
    \/ \E r \in ServiceRequests : Receive(1, r, TRUE)
    \/ create_scored_finding(1)
    \/ create_scored_finding_commit(1)
    \/ seed_qualys_csv(1)
    \/ seed_qualys_csv_commit(1)
    \/ update_risk_weights(1)
    \/ update_risk_weights_query(1)
    \/ update_risk_weights_rescore(1)
    \/ update_risk_weights_commit(1)
    \/ get_or_create_insert(1)
    \/ get_or_create_refresh(1)
    \/ KevHandler(1)
    \/ rename_source(1)
    \/ rename_source_commit(1)
    \/ delete_source(1)
    \/ delete_source_commit(1)
    \/ set_finding_disposition(1)
    \/ set_finding_disposition_commit(1)
    \/ clear_finding_disposition(1)
    \/ clear_finding_disposition_commit(1)
    \/ Fail(1)

SpecService == Init /\ [][NextService]_vars

\* one call of the scoring pipeline on arbitrary arguments
InitScoring ==
    /\ call \in [args : ScoringArgs, weights : ScoringWeights]
    /\ ret = NoRet
    /\ InitTables

CallComputeRiskAssessment ==
    /\ ret = NoRet
    /\ ret' = compute_risk_assessment(call.args, call.weights)
    /\ UNCHANGED <<call, configs, findings, events, pc, req, sess, resp, budget>>

NextScoring == CallComputeRiskAssessment

SpecScoring == InitScoring /\ [][NextScoring]_vars

-----------------------------------------------------------------------------
(* Claims about the scoring pipeline (SpecScoring) *)

\* C1: whatever the arguments (out of range, unknown label) and whatever
\* validated weight vector, the returned risk_score lies in [0, 100] and the
\* returned risk_band is one of Low, Medium, High, Critical.
C1_ScoreAndBandBounded ==
    ret # NoRet => /\ ret.risk_score \in 0..1000
                   /\ ret.risk_band \in Bands

\* the call of test_compute_risk_score_and_band_clamps_bounds has returned
C1_Witness ==
    /\ ret # NoRet
    /\ call.args.cvss_score = 95
    /\ call.args.epss_score = 2500
    /\ call.args.asset_criticality = NoneInt
    /\ call.args.asset_criticality_label = "UnknownLabel"
    /\ call.args.vuln_age_days = 9999
    /\ call.args.auth_required
    /\ ~call.args.internet_exposed
    /\ call.weights = W(0, 0, 0, 0, 1000, -1000)
    /\ ret.risk_score = 0

-----------------------------------------------------------------------------
(* Claims about PUT /scores/weights, one request at a time (Spec) *)

\* the condition of acceptance as the specification words it
C3_Acceptable(w) ==
    /\ \A k \in WeightFields \ {"auth_required_weight"} : w[k] >= 0 /\ w[k] <= 1000
    /\ w.auth_required_weight >= -1000 /\ w.auth_required_weight <= 0
    /\ LET sum == w.cvss_weight + w.epss_weight + w.internet_exposed_weight
                  + w.asset_criticality_weight + w.vuln_age_weight
       IN  sum - 1000 <= 1 /\ 1000 - sum <= 1

C4_RejectedChangesNothing ==
    [][\A p \in Workers :
          (pc[p] = "start" /\ req[p].op = "update_risk_weights"
             /\ pc'[p] = "idle" /\ resp'[p].status = 400)
            => UNCHANGED <<configs, findings, events>>]_vars

\* a rejection has been answered on a database that holds a non-default
\* vector and a finding
C4_Witness ==
    /\ resp[1].op = "update_risk_weights"
    /\ resp[1].status = 400
    /\ resp[1].body.detail = <<"auth_required_weight", "must be >= -1.">>
    /\ configs = <<W(0, 0, 0, 0, 1000, -1000)>>
    /\ findings # <<>>

\* the scoring pipeline on the stored raw attributes of a row
C5_PipelineOnStored(row, weights) ==
    compute_risk_assessment(
        [cvss_score |-> row.cvss_score, epss_score |-> row.epss_score,
         internet_exposed |-> row.internet_exposed,
         asset_criticality_label |-> None,
         asset_criticality |-> row.asset_criticality,
         vuln_age_days |-> IF row.vuln_age_days = NoneInt THEN 0
                           ELSE row.vuln_age_days,
         auth_required |-> row.auth_required, is_kev |-> row.is_kev],
        weights)

C7_RescoringIdempotent ==
    [][\A p \in Workers :
          (/\ pc[p] = "upd_commit"
           /\ resp'[p].status = 200
           /\ resp[p].op = "update_risk_weights"
           /\ resp[p].status = 200
           /\ resp[p].body.weights = req[p].payload)
            => findings' = findings]_vars

\* the second update with the vector of the first is about to commit: it has
\* rescored a finding whose score the first update had changed
C7_Witness ==
    /\ pc[1] = "upd_commit"
    /\ resp[1].op = "update_risk_weights"
    /\ resp[1].status = 200
    /\ resp[1].body.weights = req[1].payload
    /\ req[1].payload = W(0, 0, 0, 0, 1000, -1000)
    /\ sess[1].rows # <<>>
    /\ \E n \in 1..Len(sess[1].rows) : sess[1].rows[n].cur.risk_score = 0

-----------------------------------------------------------------------------
(* Claims about the bulk operations (SpecBulk, SpecConc) *)

\* the weight vector in force: the config row, or the default it is created with
C6_EffectiveWeights(c) ==
    IF c = <<>> THEN DEFAULT_RISK_WEIGHTS ELSE weights_from_config(c[1])

\* the complete result of a re-enrichment for one finding: untouched when its
\* KEV columns already agree with the catalog, else marked or cleared and rescored
C6_Reenriched(finding, catalog, weights) ==
    LET target == kev_columns(finding, kev_record_for_cve(catalog, finding.cve_id))
    IN  IF target = finding THEN finding
        ELSE _rescore_finding_in_place(target, weights)

\* the step installs the complete result of worker p's weight update
C6_CompleteUpdate(p) ==
    /\ req[p].op = "update_risk_weights"
    /\ C6_EffectiveWeights(configs') = req[p].payload
    /\ Len(findings') = Len(findings)
    /\ \A n \in 1..Len(findings) :
          findings'[n] = _rescore_finding_in_place(findings[n], req[p].payload)

\* the step installs the complete result of worker p's re-enrichment
C6_CompleteReenrich(p) ==
    /\ req[p].op = "re_enrich_findings_with_kev"
    /\ C6_EffectiveWeights(configs') = C6_EffectiveWeights(configs)
    /\ Len(findings') = Len(findings)
    /\ \A n \in 1..Len(findings) :
          findings'[n] =
              C6_Reenriched(findings[n],
                            load_kev_catalog(Files, strip(or_empty(req[p].csv_path))).catalog,
                            C6_EffectiveWeights(configs))

\* C6: every step of a weight update or of a KEV re-enrichment, a failure
\* part-way through the batch included, either leaves the committed weight
\* vector and findings as they were or installs the complete result: every
\* finding rescored and, for a weight update, the new vector persisted.
C6_BulkAllOrNothing ==
    [][\A p \in Workers :
          (pc[p] # "idle" /\ pc'[p] # pc[p]
             /\ req[p].op \in {"update_risk_weights", "re_enrich_findings_with_kev"})
            => \/ /\ C6_EffectiveWeights(configs') = C6_EffectiveWeights(configs)
                  /\ findings' = findings
               \/ C6_CompleteUpdate(p)
               \/ C6_CompleteReenrich(p)]_vars

-----------------------------------------------------------------------------
(* Claims about concurrent requests (SpecConc) *)

\* the vectors a committed config row may hold: the default of a new row and
\* the validated vectors of the requests
C8_SubmittedVectors ==
    {DEFAULT_RISK_WEIGHTS}
    \cup {r.payload : r \in {q \in ConcRequests :
                                 /\ q.op = "update_risk_weights"
                                 /\ _validate_risk_weights(q.payload) = <<>>}}

\* C8: under every interleaving of weight updates, readers and finding
\* creations, the committed config row holds one submitted vector in full and
\* every committed finding carries the score computed with that vector.
C8_UpdatesSerialized ==
    configs # <<>> =>
        /\ weights_from_config(configs[1]) \in C8_SubmittedVectors
        /\ \A n \in 1..Len(findings) :
              _rescore_finding_in_place(findings[n], weights_from_config(configs[1]))
                  = findings[n]

-----------------------------------------------------------------------------
(* Claims about dispositions (SpecDisp) *)

C9_Enumerated ==
    {s_none, s_ignored, s_risk_accepted, s_false_positive, s_not_applicable}

\* the requested disposition trimmed and lower-cased
C9_TrimLower(raw) == lower(strip(or_empty(raw)))

\* the requested disposition trimmed, lower-cased and with every space
\* replaced by an underscore
C9_Normalized(raw) == replace(lower(strip(or_empty(raw))), " ", "_")

\* the step answers worker p without success and without a change
C9_Rejected(p) ==
    /\ pc'[p] = "idle"
    /\ resp'[p].status # 200
    /\ UNCHANGED <<findings, events>>

\* a stored disposition becomes "none" only in the commit of a clear
C9_NoneOnlyThroughClear ==
    \A n \in 1..Len(findings) :
        (findings[n].disposition # s_none /\ findings'[n].disposition = s_none)
            => \E p \in Workers : pc[p] = "clr_commit"

\* C9 as stated: a set request whose disposition, trimmed and lower-cased, is
\* "none" or is not in the enumerated set is rejected without any change to
\* the findings or the audit log, and only clear makes a disposition "none".
C9_RejectsTrimLowerOutsideSet ==
    [][/\ \A p \in Workers :
            (/\ pc[p] = "start" /\ req[p].op = "set_finding_disposition"
             /\ pc'[p] # "start"
             /\ \/ C9_TrimLower(req[p].payload.disposition) = s_none
                \/ C9_TrimLower(req[p].payload.disposition) \notin C9_Enumerated)
                => C9_Rejected(p)
       /\ C9_NoneOnlyThroughClear]_vars

\* C9: a set request whose disposition, after trimming, lower-casing and
\* replacing spaces by underscores, is "none" or is not in the enumerated set
\* is rejected without any change to the findings or the audit log, and only
\* clear makes a stored disposition "none".
C9_RejectsNormalizedOutsideSet ==
    [][/\ \A p \in Workers :
            (/\ pc[p] = "start" /\ req[p].op = "set_finding_disposition"
             /\ pc'[p] # "start"
             /\ \/ C9_Normalized(req[p].payload.disposition) = s_none
                \/ C9_Normalized(req[p].payload.disposition) \notin C9_Enumerated)
                => C9_Rejected(p)
       /\ C9_NoneOnlyThroughClear]_vars

\* a set to " NONE " has been refused on a finding that stays risk_accepted,
\* with its one audit event
C9_Witness ==
    /\ resp[1].op = "set_finding_disposition"
    /\ resp[1].status = 400
    /\ resp[1].body.detail = <<"Use the clear disposition endpoint.">>
    /\ Len(findings) >= 1
    /\ findings[1].disposition = s_risk_accepted
    /\ Len(events) = 1

\* C10: the commit of a successful set leaves the finding with the requested
\* (normalised) disposition, state "active", a created_at stamp, the actor as
\* created_by and the reason, comment and expiry of the request, and appends
\* exactly one audit event, for that finding, whose old_value.disposition is
\* the disposition before the call and whose new_value.disposition is the
\* requested one; nothing else in the findings or the log changes.
C10_SetOverwritesAndAudits ==
    [][\A p \in Workers :
          (pc[p] = "set_commit" /\ resp'[p].status = 200) =>
            LET n == Index(req[p].finding_db_id)
                payload == req[p].payload
                requested == C9_Normalized(payload.disposition)
                e == events'[Len(events')]
            IN  /\ Len(findings') = Len(findings)
                /\ \A m \in 1..Len(findings) : m # n => findings'[m] = findings[m]
                /\ findings'[n].disposition = requested
                /\ findings'[n].disposition_state = s_active
                /\ findings'[n].disposition_created_at \in Times
                /\ findings'[n].disposition_created_by =
                       (IF strip(or_empty(payload.actor)) = <<>> THEN s_manual
                        ELSE strip(payload.actor))
                /\ findings'[n].disposition_reason =
                       (IF strip(or_empty(payload.reason)) = <<>> THEN NoneStr
                        ELSE strip(payload.reason))
                /\ findings'[n].disposition_comment =
                       (IF strip(or_empty(payload.comment)) = <<>> THEN NoneStr
                        ELSE strip(payload.comment))
                /\ findings'[n].disposition_expires_at = payload.expires_at
                /\ Len(events') = Len(events) + 1
                /\ SubSeq(events', 1, Len(events)) = events
                /\ e.scored_finding_id = req[p].finding_db_id
                /\ e.finding_key = <<findings[n].source, ":", findings[n].asset_id,
                                     ":", findings[n].finding_id>>
                /\ e.old_value["disposition"] =
                       [type |-> "string", text |-> findings[n].disposition]
                /\ e.new_value["disposition"] =
                       [type |-> "string", text |-> requested]]_vars

\* finding 1 went from none to ignored and from ignored to risk_accepted,
\* one audit event each
C10_Witness ==
    /\ resp[1].op = "set_finding_disposition"
    /\ resp[1].status = 200
    /\ Len(findings) >= 1
    /\ findings[1].disposition = s_risk_accepted
    /\ findings[1].disposition_state = s_active
    /\ Len(events) = 2
    /\ events[1].scored_finding_id = 1
    /\ events[1].old_value["disposition"].text = s_none
    /\ events[1].new_value["disposition"].text = s_ignored
    /\ events[2].scored_finding_id = 1
    /\ events[2].old_value["disposition"].text = s_ignored
    /\ events[2].new_value["disposition"].text = s_risk_accepted

\* C11: the commit of a clear on an existing finding, whatever its disposition
\* was ("none" included), leaves it with disposition "none" and with state,
\* reason, comment, created_at, expires_at and created_by all null, and
\* appends exactly one audit event, for that finding; nothing else in the
\* findings or the log changes.
C11_ClearResetsAndAudits ==
    [][\A p \in Workers :
          (pc[p] = "clr_commit" /\ resp'[p].status = 200) =>
            LET n == Index(req[p].finding_db_id)
                e == events'[Len(events')]
            IN  /\ Len(findings') = Len(findings)
                /\ \A m \in 1..Len(findings) : m # n => findings'[m] = findings[m]
                /\ findings'[n].disposition = s_none
                /\ findings'[n].disposition_state = NoneStr
                /\ findings'[n].disposition_reason = NoneStr
                /\ findings'[n].disposition_comment = NoneStr
                /\ findings'[n].disposition_created_at = NoneInt
                /\ findings'[n].disposition_expires_at = NoneInt
                /\ findings'[n].disposition_created_by = NoneStr
                /\ Len(events') = Len(events) + 1
                /\ SubSeq(events', 1, Len(events)) = events
                /\ e.scored_finding_id = req[p].finding_db_id
                /\ e.old_value["disposition"] =
                       [type |-> "string", text |-> findings[n].disposition]
                /\ e.new_value["disposition"] =
                       [type |-> "string", text |-> s_none]]_vars

\* finding 1 was set to risk_accepted with reason, expiry and actor, then
\* cleared: it is back at none with every field null, two events in the log
C11_Witness ==
    /\ resp[1].op = "clear_finding_disposition"
    /\ resp[1].status = 200
    /\ Len(findings) >= 1
    /\ findings[1].disposition = s_none
    /\ findings[1].disposition_created_at = NoneInt
    /\ Len(events) = 2
    /\ events[2].scored_finding_id = 1
    /\ events[2].old_value["disposition"].text = s_risk_accepted
    /\ events[2].old_value["disposition_expires_at"].type = "string"
    /\ events[2].new_value["disposition"].text = s_none

\* a finding already at none was cleared: one event from none to none
C11_WitnessFromNone ==
    /\ resp[1].op = "clear_finding_disposition"
    /\ resp[1].status = 200
    /\ Len(events) = 1
    /\ events[1].old_value["disposition"].text = s_none
    /\ events[1].new_value["disposition"].text = s_none


-----------------------------------------------------------------------------
(* The EPSS floor, the thresholds and the clamps of the pipeline *)

\* epss_norm of the call in thousandths, written without the pipeline's clamp
EpssNormOfCall ==
    IF call.args.epss_score < 0 THEN 0
    ELSE IF call.args.epss_score > 1000 THEN 1000
    ELSE call.args.epss_score

\* C15: for a non-KEV call the returned band is never ordinally below the
\* band of raw * 100, is at least High when epss_norm >= 0.95 and at least
\* Medium when epss_norm >= 0.80; for a KEV call the band is Critical whatever
\* the EPSS is, so no floor decides it.
C15_EpssFloorOnlyEscalates ==
    ret # NoRet =>
        IF call.args.is_kev
        THEN ret.risk_band = "Critical"
        ELSE /\ BandOrder[ret.risk_band]
                    >= BandOrder[_band_from_score_100(ret.risk_raw)]
             /\ EpssNormOfCall >= 950 => BandOrder[ret.risk_band] >= BandOrder["High"]
             /\ EpssNormOfCall >= 800 => BandOrder[ret.risk_band] >= BandOrder["Medium"]

\* the call of test_non_kev_high_epss_floor_raises_band_to_high (age 0): the
\* weighted base alone classifies Low, the floor makes it High
C15_Witness ==
    /\ ret # NoRet
    /\ ~call.args.is_kev
    /\ call.args.cvss_score = 35
    /\ call.args.epss_score = 960
    /\ ~call.args.internet_exposed
    /\ call.args.asset_criticality = 1
    /\ call.args.vuln_age_days = 0
    /\ call.args.auth_required
    /\ call.weights = NoWeights
    /\ _band_from_score_100(ret.risk_raw) = "Low"
    /\ ret.risk_band = "High"

\* a Critical base at epss_norm >= 0.95 stays Critical
C15_WitnessNoDemotion ==
    /\ ret # NoRet
    /\ ~call.args.is_kev
    /\ EpssNormOfCall >= 950
    /\ _band_from_score_100(ret.risk_raw) = "Critical"
    /\ ret.risk_band = "Critical"


\* C16: the classification has inclusive lower thresholds: for a non-KEV
\* call with EPSS below 0.80 the band is Critical from 80, High from 60 to
\* below 80, Medium from 40 to below 60 and Low below 40 (of raw * 100); a
\* weighted base of exactly 0.40, 0.60 or 0.80 gives risk_score 40.0, 60.0 or
\* 80.0 and band Medium, High or Critical.
C16_InclusiveThresholds ==
    (ret # NoRet /\ ~call.args.is_kev /\ EpssNormOfCall < 800) =>
        /\ ret.risk_band = "Critical" <=> ret.risk_raw >= 80 * PointOne
        /\ ret.risk_band = "High" <=> /\ ret.risk_raw >= 60 * PointOne
                                      /\ ret.risk_raw < 80 * PointOne
        /\ ret.risk_band = "Medium" <=> /\ ret.risk_raw >= 40 * PointOne
                                        /\ ret.risk_raw < 60 * PointOne
        /\ ret.risk_band = "Low" <=> ret.risk_raw < 40 * PointOne
        /\ ret.risk_raw = 40 * PointOne =>
               ret.risk_score = 400 /\ ret.risk_band = "Medium"
        /\ ret.risk_raw = 60 * PointOne =>
               ret.risk_score = 600 /\ ret.risk_band = "High"
        /\ ret.risk_raw = 80 * PointOne =>
               ret.risk_score = 800 /\ ret.risk_band = "Critical"

\* the call of test_compute_risk_score_and_band_threshold_40_is_medium
C16_Witness ==
    /\ ret # NoRet
    /\ ~call.args.is_kev
    /\ call.args.cvss_score = 100
    /\ call.args.epss_score = 250
    /\ ~call.args.internet_exposed
    /\ call.args.asset_criticality = NoneInt
    /\ call.args.asset_criticality_label = "Low"
    /\ call.args.vuln_age_days = 0
    /\ ~call.args.auth_required
    /\ call.weights = NoWeights
    /\ ret.risk_raw = 40 * PointOne
    /\ ret.risk_score = 400
    /\ ret.risk_band = "Medium"

\* a base of exactly 0.60 with EPSS 0
C16_Witness60 ==
    /\ ret # NoRet
    /\ ~call.args.is_kev
    /\ EpssNormOfCall < 800
    /\ ret.risk_raw = 60 * PointOne
    /\ ret.risk_score = 600
    /\ ret.risk_band = "High"

\* a base of exactly 0.80 with EPSS 0.2
C16_Witness80 ==
    /\ ret # NoRet
    /\ ~call.args.is_kev
    /\ EpssNormOfCall < 800
    /\ ret.risk_raw = 80 * PointOne
    /\ ret.risk_score = 800
    /\ ret.risk_band = "Critical"


\* the band of a reported risk_score (tenths of a point)
ClassifyReported(risk_score) == _band_from_score_100(risk_score * (PointOne \div 10))

\* C20: the returned band is derivable from the returned one-decimal
\* risk_score and the override rules: Critical for a KEV call, else the band
\* of risk_score raised to High when epss_norm >= 0.95, to Medium when
\* epss_norm is in [0.80, 0.95), and unchanged when epss_norm < 0.80.
C20_BandDerivableFromReportedScore ==
    ret # NoRet =>
        ret.risk_band =
            IF call.args.is_kev THEN "Critical"
            ELSE IF EpssNormOfCall >= 950
            THEN _max_band(ClassifyReported(ret.risk_score), "High")
            ELSE IF EpssNormOfCall >= 800
            THEN _max_band(ClassifyReported(ret.risk_score), "Medium")
            ELSE ClassifyReported(ret.risk_score)


\* the assessment of the same call with auth_required set to b
WithAuthRequired(b) ==
    compute_risk_assessment([call.args EXCEPT !.auth_required = b], call.weights)

\* C17: with every other argument and the weights held fixed, the risk_score
\* returned for auth_required = true is never greater than the one returned
\* for auth_required = false, for KEV and non-KEV calls alike.
C17_AuthRequiredNeverRaisesScore ==
    ret # NoRet =>
        IF call.args.auth_required
        THEN ret.risk_score <= WithAuthRequired(FALSE).risk_score
        ELSE WithAuthRequired(TRUE).risk_score <= ret.risk_score

\* a non-KEV call with auth_required = true that scores strictly lower than
\* the same call without it
C17_Witness ==
    /\ ret # NoRet
    /\ ~call.args.is_kev
    /\ call.args.auth_required
    /\ call.args.cvss_score = 95
    /\ call.args.epss_score = 800
    /\ call.args.internet_exposed
    /\ call.args.asset_criticality_label = "High"
    /\ call.args.vuln_age_days = 15
    /\ call.weights = NoWeights
    /\ ret.risk_score < WithAuthRequired(FALSE).risk_score

\* the same for a KEV call
C17_WitnessKev ==
    /\ ret # NoRet
    /\ call.args.is_kev
    /\ call.args.auth_required
    /\ ret.risk_score < WithAuthRequired(FALSE).risk_score

\* the assessment of the same call with epss_score set to e
WithEpss(e) ==
    compute_risk_assessment([call.args EXCEPT !.epss_score = e], call.weights)

\* the assessment of the same call with vuln_age_days set to g
WithAge(g) ==
    compute_risk_assessment([call.args EXCEPT !.vuln_age_days = g], call.weights)

\* C18: a negative epss_score gives the risk_score and risk_band of
\* epss_score = 0, a negative vuln_age_days those of age 0, and an age above
\* 365 those of age 365, everything else held fixed.
C18_ClampedInputsEquivalent ==
    ret # NoRet =>
        /\ call.args.epss_score < 0 =>
               /\ ret.risk_score = WithEpss(0).risk_score
               /\ ret.risk_band = WithEpss(0).risk_band
        /\ call.args.vuln_age_days < 0 =>
               /\ ret.risk_score = WithAge(0).risk_score
               /\ ret.risk_band = WithAge(0).risk_band
        /\ call.args.vuln_age_days > 365 =>
               /\ ret.risk_score = WithAge(365).risk_score
               /\ ret.risk_band = WithAge(365).risk_band

\* a call with EPSS -0.5 and age 9999 whose score depends on both factors:
\* it differs from the score at EPSS 0.2 and from the score at age 364
C18_Witness ==
    /\ ret # NoRet
    /\ call.args.epss_score = -500
    /\ call.args.vuln_age_days = 9999
    /\ call.weights = NoWeights
    /\ ret.risk_score = WithEpss(0).risk_score
    /\ ret.risk_score = WithAge(365).risk_score
    /\ ret.risk_score # WithEpss(200).risk_score
    /\ ret.risk_score # WithAge(15).risk_score

\* a call with a negative age
C18_WitnessNegativeAge ==
    /\ ret # NoRet
    /\ call.args.vuln_age_days = -10
    /\ call.weights = NoWeights
    /\ ret.risk_score = WithAge(0).risk_score
    /\ ret.risk_score # WithAge(365).risk_score


-----------------------------------------------------------------------------
(* Claims about KEV re-enrichment (SpecBulk) *)

KevFields ==
    {"is_kev", "kev_date_added", "kev_due_date", "kev_vendor_project",
     "kev_product", "kev_vulnerability_name", "kev_short_description",
     "kev_required_action", "kev_ransomware_use"}

\* the catalog of the file worker p's request names
CatalogOfRequest(p) ==
    load_kev_catalog(Files, strip(or_empty(req[p].csv_path))).catalog

\* the flag and the metadata the catalog would give the row equal the stored ones
KevWouldBeEqual(finding, catalog) ==
    LET record == kev_record_for_cve(catalog, finding.cve_id)
    IN  IF record = NoRecord
        THEN /\ ~finding.is_kev
             /\ finding.kev_date_added = NoneInt
             /\ finding.kev_due_date = NoneInt
             /\ finding.kev_vendor_project = NoneStr
             /\ finding.kev_product = NoneStr
             /\ finding.kev_vulnerability_name = NoneStr
             /\ finding.kev_short_description = NoneStr
             /\ finding.kev_required_action = NoneStr
             /\ finding.kev_ransomware_use = NoneStr
        ELSE /\ finding.is_kev
             /\ finding.kev_date_added = record.date_added
             /\ finding.kev_due_date = record.due_date
             /\ finding.kev_vendor_project = record.vendor_project
             /\ finding.kev_product = record.product
             /\ finding.kev_vulnerability_name = record.vulnerability_name
             /\ finding.kev_short_description = record.short_description
             /\ finding.kev_required_action = record.required_action
             /\ finding.kev_ransomware_use = record.ransomware_use

\* C13: at the commit of a re-enrichment, a finding whose would-be is_kev and
\* KEV metadata all equal the stored ones has no attribute assigned in the
\* session and is the same row afterwards (risk_score, risk_band and sla_hours
\* included), and the three counters count no such finding.
C13_UnchangedFindingUntouched ==
    [][\A p \in Workers :
          (pc[p] = "kev_commit" /\ resp'[p].status = 200) =>
            LET same == {n \in 1..Len(findings) :
                            KevWouldBeEqual(findings[n], CatalogOfRequest(p))}
                others == Len(findings) - Cardinality(same)
            IN  /\ Len(findings') = Len(findings)
                /\ \A n \in same :
                      /\ sess[p].rows[n].cur = sess[p].rows[n].loaded
                      /\ findings'[n] = findings[n]
                /\ resp'[p].body.updated_rows <= others
                /\ resp'[p].body.kev_rows_marked <= others
                /\ resp'[p].body.kev_rows_cleared <= others]_vars

\* a re-enrichment from a.csv has answered: the finding of CVE-2, which the
\* file does not list, is as it was created, and one row was updated
C13_Witness ==
    /\ pc[1] = "idle"
    /\ resp[1].op = "re_enrich_findings_with_kev"
    /\ resp[1].status = 200
    /\ resp[1].body.csv_path = p_a
    /\ resp[1].body.updated_rows = 1
    /\ Len(findings) = 2
    /\ \E n \in 1..2 : /\ findings[n].cve_id = c_CVE2
                       /\ ~findings[n].is_kev
                       /\ findings[n].sla_hours = NoneInt
                       /\ findings[n].kev_product = NoneStr

\* a re-enrichment that found nothing to change in two findings
C13_WitnessNothingChanged ==
    /\ pc[1] = "idle"
    /\ resp[1].op = "re_enrich_findings_with_kev"
    /\ resp[1].status = 200
    /\ resp[1].body.updated_rows = 0
    /\ Len(findings) = 2
    /\ \E n \in 1..2 : findings[n].is_kev

\* C14: the counters of a re-enrichment are exact: kev_rows_marked is the
\* number of findings whose is_kev went from false to true, each of them
\* ending with risk_band Critical; kev_rows_cleared the number whose is_kev went
\* from true to false; updated_rows the number with at least one KEV field
\* changed, hence updated_rows >= kev_rows_marked + kev_rows_cleared.
C14_CountersExact ==
    [][\A p \in Workers :
          (pc[p] = "kev_commit" /\ resp'[p].status = 200) =>
            LET rows == 1..Len(findings)
                marked == {n \in rows : ~findings[n].is_kev /\ findings'[n].is_kev}
                cleared == {n \in rows : findings[n].is_kev /\ ~findings'[n].is_kev}
                updated == {n \in rows :
                               \E k \in KevFields : findings'[n][k] # findings[n][k]}
            IN  /\ Len(findings') = Len(findings)
                /\ resp'[p].body.kev_rows_marked = Cardinality(marked)
                /\ \A n \in marked : findings'[n].risk_band = "Critical"
                /\ resp'[p].body.kev_rows_cleared = Cardinality(cleared)
                /\ resp'[p].body.updated_rows = Cardinality(updated)
                /\ resp'[p].body.updated_rows
                       >= resp'[p].body.kev_rows_marked
                              + resp'[p].body.kev_rows_cleared]_vars

\* a re-enrichment from b.csv marked the finding of CVE-2 and cleared the
\* finding of CVE-1
C14_Witness ==
    /\ pc[1] = "idle"
    /\ resp[1].op = "re_enrich_findings_with_kev"
    /\ resp[1].status = 200
    /\ resp[1].body.csv_path = p_b
    /\ resp[1].body.updated_rows = 2
    /\ resp[1].body.kev_rows_marked = 1
    /\ resp[1].body.kev_rows_cleared = 1
    /\ Len(findings) = 2
    /\ \E n \in 1..2 : /\ findings[n].cve_id = c_CVE2
                       /\ findings[n].is_kev
                       /\ findings[n].risk_band = "Critical"
                       /\ findings[n].kev_product = <<"X">>
    /\ \E n \in 1..2 : /\ findings[n].cve_id = c_cve1
                       /\ ~findings[n].is_kev

\* a re-enrichment that changed metadata only: updated, neither marked nor cleared
C14_WitnessMetadataOnly ==
    /\ pc[1] = "idle"
    /\ resp[1].op = "re_enrich_findings_with_kev"
    /\ resp[1].status = 200
    /\ resp[1].body.updated_rows = 1
    /\ resp[1].body.kev_rows_marked = 0
    /\ resp[1].body.kev_rows_cleared = 0


-----------------------------------------------------------------------------
(* Claims about the whole service (SpecService) *)

\* the step is the commit of a set or of a clear that answers 200
SuccessfulSetOrClear ==
    \E p \in Workers :
        /\ pc[p] \in {"set_commit", "clr_commit"}
        /\ pc'[p] = "idle"
        /\ resp'[p].status = 200

\* C12: the audit log is append-only over every sequence of creations, CSV
\* ingests, weight updates, re-enrichments, source renames, source deletes,
\* sets and clears: no step modifies or removes an event; the commit of a
\* successful set or clear adds exactly one event; every other step, a
\* rejected set or clear included, adds none.
C12_AuditLogAppendOnly ==
    [][/\ Len(events') >= Len(events)
       /\ SubSeq(events', 1, Len(events)) = events
       /\ Len(events') = IF SuccessfulSetOrClear THEN Len(events) + 1
                         ELSE Len(events)]_vars

\* the finding of an audit event has been deleted with its source and the
\* event is still in the log
C12_Witness ==
    /\ pc[1] = "idle"
    /\ resp[1].op = "delete_source"
    /\ resp[1].status = 200
    /\ Len(events) >= 1
    /\ \A n \in 1..Len(findings) : findings[n].id # events[1].scored_finding_id

\* a rejected set after a successful one: the log holds the one event
C12_WitnessRejectedSet ==
    /\ pc[1] = "idle"
    /\ resp[1].op = "set_finding_disposition"
    /\ resp[1].status = 400
    /\ Len(events) = 1

\* C19: in every state reached by creations, CSV ingests, weight updates and
\* re-enrichments (and the other operations of the service), each stored
\* finding has sla_hours set exactly when its is_kev flag is true.
C19_SlaIffKev ==
    \A n \in 1..Len(findings) :
        (findings[n].sla_hours # NoneInt) <=> findings[n].is_kev

\* a re-enrichment has marked the ingested finding and cleared the created
\* one: the first has a deadline, the second has none
C19_Witness ==
    /\ pc[1] = "idle"
    /\ resp[1].op = "re_enrich_findings_with_kev"
    /\ resp[1].status = 200
    /\ Len(findings) = 2
    /\ \E n \in 1..2 : /\ findings[n].finding_id = "Q-1"
                       /\ findings[n].is_kev
                       /\ findings[n].sla_hours = 72
    /\ \E n \in 1..2 : /\ findings[n].finding_id = "F-2"
                       /\ ~findings[n].is_kev
                       /\ findings[n].sla_hours = NoneInt

\* the created KEV finding after a weight update
C19_WitnessAfterUpdate ==
    /\ pc[1] = "idle"
    /\ resp[1].op = "update_risk_weights"
    /\ resp[1].status = 200
    /\ \E n \in 1..Len(findings) : findings[n].is_kev /\ findings[n].sla_hours = 24

-----------------------------------------------------------------------------
(* Claims about the catalog of a re-enrichment (SpecBulk) *)

\* the path is blank, names no file, or names a file without a header row
C21_InvalidPath(raw) ==
    LET csv_path == strip(or_empty(raw))
    IN  \/ csv_path = <<>>
        \/ csv_path \notin DOMAIN Files
        \/ Files[csv_path].fieldnames = <<>>

\* C21: a re-enrichment whose catalog path is blank, names an absent file or
\* names a file without a header row is answered in its first step with a
\* client-input error (status 400, a detail and no counters), and that step
\* changes no finding, no weight configuration and no audit event.
C21_InvalidCatalogRejected ==
    [][\A p \in Workers :
          (/\ pc[p] = "start"
           /\ req[p].op = "re_enrich_findings_with_kev"
           /\ C21_InvalidPath(req[p].csv_path)
           /\ pc'[p] # pc[p])
            => /\ pc'[p] = "idle"
               /\ resp'[p].status = 400
               /\ DOMAIN resp'[p].body = {"detail"}
               /\ UNCHANGED <<configs, findings, events>>]_vars

\* an absent file was rejected on a database that holds a KEV finding
C21_Witness ==
    /\ resp[1].op = "re_enrich_findings_with_kev"
    /\ resp[1].status = 400
    /\ resp[1].body.detail = <<"KEV CSV not found">>
    /\ \E n \in 1..Len(findings) : findings[n].is_kev /\ findings[n].sla_hours # NoneInt

\* a file without a header row was rejected
C21_WitnessNoHeader ==
    /\ resp[1].op = "re_enrich_findings_with_kev"
    /\ resp[1].status = 400
    /\ resp[1].body.detail = <<"KEV CSV appears empty or missing headers.">>
    /\ findings # <<>>

\* a blank path was rejected before any configuration existed
C21_WitnessBlank ==
    /\ resp[1].op = "re_enrich_findings_with_kev"
    /\ resp[1].status = 400
    /\ resp[1].body.detail = <<"csv_path is required.">>
    /\ configs = <<>>

-----------------------------------------------------------------------------
(* Claims about the weight configuration under concurrent requests (SpecConc) *)

\* C22: the table holds at most one weight configuration; the step that
\* creates it stores the defaults; a later step changes it only as the commit
\* of a weight update whose payload passed validation, and never adds a
\* row; so the persisted vector satisfies the validation constraints.
C22_SingleValidatedConfig ==
    [][/\ Len(configs') <= 1
       /\ (configs = <<>> /\ configs' # configs)
             => configs' = <<DEFAULT_RISK_WEIGHTS>>
       /\ (configs # <<>> /\ configs' # configs)
             => /\ Len(configs') = Len(configs)
                /\ \E p \in Workers :
                      /\ pc[p] = "upd_commit"
                      /\ resp'[p].status = 200
                      /\ C3_Acceptable(req[p].payload)
                      /\ weights_from_config(configs'[1]) = req[p].payload
       /\ \A n \in 1..Len(configs') : C3_Acceptable(configs'[n])]_vars

-----------------------------------------------------------------------------
(* Claims about dispositions and scoring together (SpecService) *)

C23_DispositionColumns ==
    {"disposition", "disposition_state", "disposition_reason",
     "disposition_comment", "disposition_created_at", "disposition_expires_at",
     "disposition_created_by"}

\* C23: the commit of a set or clear changes only disposition columns, and
\* only of the finding it names (risk_score, risk_band, sla_hours, is_kev and
\* the raw attributes stay); every other step (weight update, re-enrichment,
\* rename, ingestion, the passing of time) leaves the disposition columns of
\* every finding that stays in the table as they were, a stored expires_at
\* included.
C23_DispositionIndependentOfScoring ==
    [][\A n \in 1..Len(findings) : \A m \in 1..Len(findings') :
          findings[n].id = findings'[m].id =>
            IF \E p \in Workers : pc[p] \in {"set_commit", "clr_commit"}
            THEN /\ \A k \in Columns \ C23_DispositionColumns :
                       findings'[m][k] = findings[n][k]
                 /\ \A p \in Workers :
                       (pc[p] \in {"set_commit", "clr_commit"}
                          /\ findings[n].id # req[p].finding_db_id)
                         => findings'[m] = findings[n]
            ELSE \A k \in C23_DispositionColumns :
                    findings'[m][k] = findings[n][k]]_vars

\* a finding was set to "ignored" with an expiry, time went on, and a later
\* weight update rescored it: the disposition and the expiry are still stored
C23_Witness ==
    /\ resp[1].op = "update_risk_weights"
    /\ resp[1].status = 200
    /\ resp[1].body.updated_rows >= 1
    /\ \E n \in 1..Len(findings) :
          /\ findings[n].disposition = s_ignored
          /\ findings[n].disposition_expires_at = 1
          /\ findings[n].risk_score = 500
    /\ \E n \in 1..Len(events) : events[n].event_at = 2

\* a set on a KEV finding: its score, band and SLA are those of its creation
C23_WitnessSetKeepsScore ==
    /\ resp[1].op = "set_finding_disposition"
    /\ resp[1].status = 200
    /\ \E n \in 1..Len(findings) :
          /\ findings[n].disposition = s_ignored
          /\ findings[n].is_kev
          /\ findings[n].risk_band = "Critical"
          /\ findings[n].sla_hours # NoneInt

\* a re-enrichment cleared the KEV flag of a finding that stays "ignored"
C23_WitnessReenrich ==
    /\ resp[1].op = "re_enrich_findings_with_kev"
    /\ resp[1].status = 200
    /\ resp[1].body.kev_rows_cleared = 1
    /\ \E n \in 1..Len(findings) :
          /\ findings[n].disposition = s_ignored
          /\ ~findings[n].is_kev

-----------------------------------------------------------------------------
(* Claims about the snapshot of an audit event (SpecDisp) *)

\* the event appended by the commit of a successful set holds, for every column
\* of `columns`, the value before the call in old_value and the value after
\* the call in new_value
C24_SnapshotOf(columns) ==
    \A p \in Workers :
       (pc[p] = "set_commit" /\ resp'[p].status = 200) =>
         LET n == Index(req[p].finding_db_id)
             e == events'[Len(events')]
         IN  \A k \in columns :
                /\ k \in DOMAIN e.old_value
                /\ e.old_value[k] = json_value(k, findings[n][k])
                /\ k \in DOMAIN e.new_value
                /\ e.new_value[k] = json_value(k, findings'[n][k])

\* C24: the audit event of a set holds the value before and the value after
\* the call of every disposition column of the finding: disposition, state,
\* reason, comment, expires_at, created_at and created_by.
C24_FullSnapshot == [][C24_SnapshotOf(C23_DispositionColumns)]_vars

\* the same for the columns other than disposition_created_at
C24_SnapshotWithoutCreatedAt ==
    [][C24_SnapshotOf(C23_DispositionColumns \ {"disposition_created_at"})]_vars

-----------------------------------------------------------------------------
(* Claims about the result of a re-enrichment (SpecBulk) *)

\* the row is flagged exactly when its identifier, trimmed and upper-cased, is
\* a key of the catalog; flagged, it carries the metadata of that record;
\* otherwise every KEV metadata column is null
C25_Reconciled(finding, catalog) ==
    LET key == IF finding.cve_id = NoneStr THEN <<>>
               ELSE upper(strip(finding.cve_id))
    IN  /\ finding.is_kev <=> key \in DOMAIN catalog
        /\ IF key \in DOMAIN catalog
           THEN /\ finding.kev_date_added = catalog[key].date_added
                /\ finding.kev_due_date = catalog[key].due_date
                /\ finding.kev_vendor_project = catalog[key].vendor_project
                /\ finding.kev_product = catalog[key].product
                /\ finding.kev_vulnerability_name = catalog[key].vulnerability_name
                /\ finding.kev_short_description = catalog[key].short_description
                /\ finding.kev_required_action = catalog[key].required_action
                /\ finding.kev_ransomware_use = catalog[key].ransomware_use
           ELSE /\ finding.kev_date_added = NoneInt
                /\ finding.kev_due_date = NoneInt
                /\ finding.kev_vendor_project = NoneStr
                /\ finding.kev_product = NoneStr
                /\ finding.kev_vulnerability_name = NoneStr
                /\ finding.kev_short_description = NoneStr
                /\ finding.kev_required_action = NoneStr
                /\ finding.kev_ransomware_use = NoneStr

\* C25: when a re-enrichment commits, every stored finding is flagged is_kev
\* exactly when its identifier, trimmed and upper-cased, is a key of the
\* catalog of the request; a flagged finding carries that record's metadata in
\* all KEV columns and every other finding has all of them null.
C25_FlagsMatchCatalog ==
    [][\A p \in Workers :
          (pc[p] = "kev_commit" /\ resp'[p].status = 200) =>
            \A n \in 1..Len(findings') :
               C25_Reconciled(findings'[n], CatalogOfRequest(p))]_vars

\* a.csv lists " cve-1 ": the finding stored with "cve-1" carries the
\* record of the file's last row for it, the finding of CVE-2 is not flagged
C25_Witness ==
    /\ pc[1] = "idle"
    /\ resp[1].op = "re_enrich_findings_with_kev"
    /\ resp[1].status = 200
    /\ resp[1].body.csv_path = p_a
    /\ Len(findings) = 2
    /\ \E n \in 1..2 : /\ findings[n].cve_id = c_cve1
                       /\ findings[n].is_kev
                       /\ findings[n].kev_date_added = 20240102
                       /\ findings[n].kev_due_date = 20240123
                       /\ findings[n].kev_vendor_project = <<"A", "c", "m", "e">>
                       /\ findings[n].kev_product = NoneStr
    /\ \E n \in 1..2 : /\ findings[n].cve_id = c_CVE2
                       /\ ~findings[n].is_kev
                       /\ findings[n].kev_product = NoneStr

\* a catalog without rows: a finding created as KEV is no longer flagged
C25_WitnessEmptyCatalog ==
    /\ pc[1] = "idle"
    /\ resp[1].op = "re_enrich_findings_with_kev"
    /\ resp[1].status = 200
    /\ resp[1].body.csv_path = p_empty
    /\ resp[1].body.kev_rows_cleared = 1
    /\ \A n \in 1..Len(findings) : ~findings[n].is_kev


\* the identifiers of the rows of a file, trimmed and upper-cased, without
\* the rows that have none
C26_KeysOf(file) ==
    {upper(strip(or_empty(_first_present(file.rows[i],
                                         <<"cveID", "cveId", "CVE", "cve">>)))) :
        i \in 1..Len(file.rows)} \ {<<>>}

\* C26: the catalog a re-enrichment works with is built from the rows of the
\* file of that request only: its keys are the trimmed, upper-cased
\* identifiers of those rows, a row without an identifier gives no entry, every
\* entry is the record of a row of that file; and at the commit a finding that
\* was flagged and whose identifier is no key of that file is cleared,
\* whatever catalog flagged it before.
C26_CatalogIsFresh ==
    [][\A p \in Workers :
          (/\ req[p].op = "re_enrich_findings_with_kev"
           /\ pc[p] \in {"kev_query", "kev_loop", "kev_commit"}) =>
            LET file == Files[strip(or_empty(req[p].csv_path))]
                catalog == sess[p].kev_catalog
            IN  /\ DOMAIN catalog = C26_KeysOf(file)
                /\ \A id \in DOMAIN catalog :
                      \E i \in 1..Len(file.rows) : catalog[id] = KevRecord(id, file.rows[i])
                /\ (pc[p] = "kev_commit" /\ resp'[p].status = 200) =>
                      \A n \in 1..Len(findings) :
                         (/\ findings[n].is_kev
                          /\ findings[n].cve_id # NoneStr
                          /\ upper(strip(findings[n].cve_id)) \notin C26_KeysOf(file))
                           => /\ ~findings'[n].is_kev
                              /\ findings'[n].kev_product = NoneStr
                              /\ findings'[n].sla_hours = NoneInt]_vars

\* the only finding was created unflagged with CVE-2, which b.csv alone
\* lists: a re-enrichment from a.csv has cleared it
C26_Witness ==
    /\ pc[1] = "idle"
    /\ resp[1].op = "re_enrich_findings_with_kev"
    /\ resp[1].status = 200
    /\ resp[1].body.csv_path = p_a
    /\ resp[1].body.kev_rows_cleared = 1
    /\ Len(findings) = 1
    /\ findings[1].cve_id = c_CVE2
    /\ ~findings[1].is_kev
    /\ findings[1].kev_product = NoneStr

\* a.csv is in use: one key for three rows, one of them without identifier
C26_WitnessSkippedRow ==
    /\ pc[1] = "kev_loop"
    /\ strip(req[1].csv_path) = p_a
    /\ DOMAIN sess[1].kev_catalog = {c_CVE1}
    /\ Len(Files[p_a].rows) = 3

-----------------------------------------------------------------------------
(* Claims about the normalisation of the asset criticality (SpecScoring) *)

\* the assessment of the same call with the criticality given as the number k
C27_WithNumber(k) ==
    compute_risk_assessment(
        [call.args EXCEPT !.asset_criticality = k, !.asset_criticality_label = None],
        call.weights)

\* the assessment of the same call with the criticality given as a label only
C27_WithLabel(label) ==
    compute_risk_assessment(
        [call.args EXCEPT !.asset_criticality = NoneInt,
                          !.asset_criticality_label = label],
        call.weights)

C27_Labels == <<"Low", "Medium", "High", "Critical">>

\* a call with a numeric criticality among `values` returns the score and the
\* band of the criticality clamped to 1..4 and, for 1..4, of its label
C27_ClampedOn(values) ==
    (/\ ret # NoRet
     /\ call.args.asset_criticality # NoneInt
     /\ call.args.asset_criticality \in values)
      => LET k == call.args.asset_criticality
             clamped == C27_WithNumber(Clamp(1, 4, k))
         IN  /\ ret.risk_score = clamped.risk_score
             /\ ret.risk_band = clamped.risk_band
             /\ k \in 1..4 =>
                   /\ ret.risk_score = C27_WithLabel(C27_Labels[k]).risk_score
                   /\ ret.risk_band = C27_WithLabel(C27_Labels[k]).risk_band

\* C27: for every integer asset_criticality the assessment is the one of the
\* criticality clamped to 1..4 (below 1 as 1, above 4 as 4), and for 1..4 it
\* is the assessment of the labels Low, Medium, High and Critical.
C27_CriticalityClampedOneToFour == C27_ClampedOn(Int)

\* the same for the criticalities from 1 upwards
C27_CriticalityFromOne == C27_ClampedOn(Nat \ {0})

-----------------------------------------------------------------------------
(* Claims about the stored scores, one request at a time (Spec, SpecService) *)

\* C28: in every state of the tables, every stored finding carries the
\* risk_score, risk_band and sla_hours the scoring pipeline gives for its
\* stored attributes and is_kev flag under the persisted weight vector.
C28_StoredScoresCurrent ==
    \A n \in 1..Len(findings) :
       /\ configs # <<>>
       /\ LET a == C5_PipelineOnStored(findings[n], weights_from_config(configs[1]))
          IN  /\ findings[n].risk_score = a.risk_score
              /\ findings[n].risk_band = a.risk_band
              /\ findings[n].sla_hours = a.sla_hours

-----------------------------------------------------------------------------
(* Claims about repeated re-enrichment (SpecBulk) *)

\* worker p commits a re-enrichment right after a successful re-enrichment
\* of the same file
C29_SecondRun(p) ==
    /\ pc[p] = "kev_commit"
    /\ resp[p].op = "re_enrich_findings_with_kev"
    /\ resp[p].status = 200
    /\ resp[p].body.csv_path = strip(or_empty(req[p].csv_path))

\* C29: a re-enrichment that directly follows a successful re-enrichment with
\* the same catalog commits, changes no finding and reports updated_rows,
\* kev_rows_marked and kev_rows_cleared all 0.
C29_ReenrichIdempotent ==
    [][\A p \in Workers :
          (C29_SecondRun(p) /\ pc'[p] = "idle" /\ resp'[p].status # 500) =>
            /\ resp'[p].status = 200
            /\ findings' = findings
            /\ resp'[p].body.updated_rows = 0
            /\ resp'[p].body.kev_rows_marked = 0
            /\ resp'[p].body.kev_rows_cleared = 0]_vars

\* the second run from a.csv is about to commit: the first one updated a row,
\* this one went through both findings and changed none
C29_Witness ==
    /\ C29_SecondRun(1)
    /\ strip(req[1].csv_path) = p_a
    /\ resp[1].body.updated_rows >= 1
    /\ Len(sess[1].rows) = 2
    /\ sess[1].updated_rows = 0
    /\ \E n \in 1..2 : findings[n].is_kev /\ findings[n].kev_due_date = 20240123

\* the second run from b.csv has answered with three zeros
C29_WitnessAnswered ==
    /\ pc[1] = "idle"
    /\ resp[1].op = "re_enrich_findings_with_kev"
    /\ resp[1].status = 200
    /\ resp[1].body.csv_path = p_b
    /\ resp[1].body.updated_rows = 0
    /\ \E n \in 1..Len(findings) : findings[n].kev_product = <<"X">>

-----------------------------------------------------------------------------
(* Claims about the key of the audit events (SpecAudit) *)

\* C30: all audit events of one stored finding carry the same non-empty
\* finding_key, whatever happened between them.
C30_StableFindingKey ==
    \A i \in 1..Len(events) : \A j \in 1..Len(events) :
       events[i].scored_finding_id = events[j].scored_finding_id
         => /\ events[i].finding_key # <<>>
            /\ events[i].finding_key = events[j].finding_key

=============================================================================
